---- MODULE Spec2Model ----
(***************************************************************************)
(* Login throttle of the diet planner backend (backend/security.py) and   *)
(* the login handler that consults it (backend/app.py).                    *)
(*                                                                         *)
(* Strings are sequences of one-character strings, so that lower() and    *)
(* strip() are computed, not assumed.  Time is the integer number of      *)
(* seconds returned by time.time(); it never runs backwards.              *)
(***************************************************************************)
EXTENDS Integers, Sequences, FiniteSets, TLC

VARIABLES
    now,                    \* time.time(), in whole seconds
    nticks,                 \* number of clock advances so far
    failed_login_attempts,  \* SecurityManager.failed_login_attempts
    blocked_ips,            \* SecurityManager.blocked_ips
    users,                  \* rows of the users table: [email, password]
    req,                    \* login requests in flight, one per worker slot
    ret,                    \* the last throttle call and what it returned
                            \* (a check's value; whether a record set a block)
    hist,                   \* history: every failure ever recorded, per identifier
    tenthIp,                \* history: address passed with an identifier's 10th failure
    lateFail,               \* history: per address, time of its last 10th-or-later failure
    okAt,                   \* history: failures recorded when the identifier last got a 200
    twin,                   \* the same requests served with the target user not registered
    thr,                    \* threads inside a throttle call: position and locals
    calls,                  \* history: how many times in a row the same check was made
    gate,                   \* the last request to pass the before-request hooks, and its answer
    acct,                   \* the last request to an account endpoint, and its answer
    signed,                 \* history: what each user submitted when registering
    plans,                  \* rows of the diet_plans table
    work,                   \* register() and update_profile() calls in flight, per worker
    limiter,                \* flask-limiter: hits on /api/login per address and minute
    monitor                 \* ApplicationMonitor: request_count and error_count

throttle == <<failed_login_attempts, blocked_ips, ret, hist, tenthIp, lateFail>>
account == <<acct, signed, plans>>
rest == <<work, limiter, monitor>>
more == <<calls, gate, account, rest>>
aside == <<twin, thr, more>>
vars == <<now, nticks, failed_login_attempts, blocked_ips, users, req, ret,
          hist, tenthIp, lateFail, okAt, twin, thr, more>>

(* ---------------------------------------------------------------------- *)
(* Program constants                                                       *)
(* ---------------------------------------------------------------------- *)
WINDOW == 900
EMAIL_LIMIT == 5
IP_BLOCK_LIMIT == 10
BLOCK_SECONDS == 900
\* @limiter.limit("5 per minute") on login()
LOGIN_LIMIT == 5
MINUTE == 60

(* ---------------------------------------------------------------------- *)
(* Bounds of the model                                                     *)
(* ---------------------------------------------------------------------- *)
\* failures recorded for the first identifier, and for every other one
MaxRecords == 11
MaxOtherRecords == 1
\* rows in the users table
MaxUsers == 2
\* failures recorded per identifier while two threads race
MaxRaceRecords == 2
\* login requests of one address in a minute, and minutes that pass
MaxBurst == 11
MaxMinutes == 1
\* failures recorded per identifier while checks are repeated, and the
\* number of repetitions that is counted
MaxIdemRecords == 6
MaxRepeats == 3
MaxPlans == 2
\* requests the monitor sees
MaxRequests == 3
\* requests sent through the hooks to the views
MaxGated == 3
\* failures recorded while login requests run concurrently
MaxWorkerRecords == 7

\* seconds by which successive clock advances move time.time(): the clock
\* reads 0, 1, 900 and 901, on both sides of a 900-second window and on its edge
TickSteps == <<1, 899, 1>>
\* the same while login requests are served: the clock reads 0 and 900
LoginTickSteps == <<900>>

(* ---------------------------------------------------------------------- *)
(* Strings                                                                 *)
(* ---------------------------------------------------------------------- *)
LowerChar(c) ==
    CASE c = "A" -> "a"
      [] c = "C" -> "c"
      [] OTHER -> c

Lower(s) == [k \in 1..Len(s) |-> LowerChar(s[k])]

RECURSIVE LStrip(_)
LStrip(s) == IF s # <<>> /\ Head(s) = " " THEN LStrip(Tail(s)) ELSE s

RECURSIVE RStrip(_)
RStrip(s) ==
    IF s # <<>> /\ s[Len(s)] = " " THEN RStrip(SubSeq(s, 1, Len(s) - 1)) ELSE s

Strip(s) == RStrip(LStrip(s))

\* faulty variant of NormalizeEmail: the email is trimmed but keeps its case
NormalizeEmail_KeepsCase(s) == Strip(s)

\* email = data["email"].lower().strip()
NormalizeEmail(s) == Strip(Lower(s))

RawEmails ==
    { <<"a","@","b",".","c","o">>,
      <<"A","@","b",".","c","o">>,
      <<" ","a","@","b",".","c","o">>,
      <<"c","@","b",".","c","o">> }

Identifiers == { NormalizeEmail(s) : s \in RawEmails }
FirstIdentifier == <<"a","@","b",".","c","o">>
IPs == { "ip1", "ip2" }

P1 == <<"p","w","1">>
P2 == <<"p","w","2">>

\* JSON values of a request body: a string, a number, or a key that is absent
Str(s) == [t |-> "str", v |-> s]
Num == [t |-> "num", v |-> <<>>]
Absent == [t |-> "absent", v |-> <<>>]

NoCall == [op |-> "none", email |-> <<>>, ip |-> "", result |-> FALSE]

(* ---------------------------------------------------------------------- *)
(* SecurityManager helpers                                                 *)
(* ---------------------------------------------------------------------- *)
RECURSIVE SelectAfter(_, _)
SelectAfter(s, cutoff) ==
    IF s = <<>> THEN <<>>
    ELSE IF Head(s) > cutoff
         THEN <<Head(s)>> \o SelectAfter(Tail(s), cutoff)
         ELSE SelectAfter(Tail(s), cutoff)

\* faulty variant of PrunedAttempts: an entry of age exactly 900 is kept
PrunedAttempts_KeepsAge900(attempts, email, current_time) ==
    IF email \in DOMAIN attempts
    THEN [attempts EXCEPT ![email] =
             SelectSeq(attempts[email], LAMBDA t : t >= current_time - WINDOW)]
    ELSE attempts

\* faulty variant of PrunedAttempts: a list pruned to nothing loses its key
PrunedAttempts_DropsEmpty(attempts, email, current_time) ==
    IF email \in DOMAIN attempts
    THEN IF SelectAfter(attempts[email], current_time - WINDOW) = <<>>
         THEN [e \in DOMAIN attempts \ { email } |-> attempts[e]]
         ELSE [attempts EXCEPT ![email] =
                  SelectAfter(attempts[email], current_time - WINDOW)]
    ELSE attempts

\* faulty variant of PrunedAttempts: the check counts itself as an attempt
PrunedAttempts_RecordsCheck(attempts, email, current_time) ==
    IF email \in DOMAIN attempts
    THEN [attempts EXCEPT ![email] =
             Append(SelectAfter(attempts[email], current_time - WINDOW), current_time)]
    ELSE attempts

\* the list comprehension of rate_limit_login_attempts
PrunedAttempts(attempts, email, current_time) ==
    IF email \in DOMAIN attempts
    THEN [attempts EXCEPT ![email] = SelectAfter(attempts[email], current_time - WINDOW)]
    ELSE attempts

\* faulty variants of EmailLimited: the threshold is off by one, either way
EmailLimited_AtFour(attempts, email) ==
    email \in DOMAIN attempts /\ Len(attempts[email]) >= EMAIL_LIMIT - 1

EmailLimited_AboveFive(attempts, email) ==
    email \in DOMAIN attempts /\ Len(attempts[email]) > EMAIL_LIMIT

EmailLimited(attempts, email) ==
    email \in DOMAIN attempts /\ Len(attempts[email]) >= EMAIL_LIMIT

\* faulty variant of IpBlocked: the entry is still honoured at its expiry
IpBlocked_AtExpiry(blocked, ip, current_time) ==
    ip \in DOMAIN blocked /\ blocked[ip] >= current_time

IpBlocked(blocked, ip, current_time) ==
    ip \in DOMAIN blocked /\ blocked[ip] > current_time

\* faulty variant of RateLimitResult: the blocklist is consulted only for a known identifier
RateLimitResult_BlockOnlyForKnown(attempts, blocked, email, ip, current_time) ==
    IF email \notin DOMAIN attempts THEN TRUE
    ELSE IF Len(attempts[email]) >= EMAIL_LIMIT THEN FALSE
    ELSE IF IpBlocked(blocked, ip, current_time) THEN FALSE
    ELSE TRUE

\* return value of rate_limit_login_attempts, given the pruned ledger
RateLimitResult(attempts, blocked, email, ip, current_time) ==
    IF EmailLimited(attempts, email) THEN FALSE
    ELSE IF IpBlocked(blocked, ip, current_time) THEN FALSE
    ELSE TRUE

\* the ledger after record_failed_login's append
AppendedAttempts(attempts, email, current_time) ==
    LET base == IF email \in DOMAIN attempts THEN attempts
                ELSE attempts @@ (email :> <<>>)
    IN [base EXCEPT ![email] = Append(base[email], current_time)]

ReachesBlockLimit(attempts, email) ==
    Len(attempts[email]) >= IP_BLOCK_LIMIT

\* faulty variant of BlockExpiry: the block lasts one second longer
BlockExpiry_OneMore(current_time) == current_time + BLOCK_SECONDS + 1

BlockExpiry(current_time) == current_time + BLOCK_SECONDS

\* faulty variant of BlockedAfterRecord: every address gets the block
BlockedAfterRecord_EveryAddress(attempts, blocked, email, ip, current_time) ==
    IF ReachesBlockLimit(attempts, email)
    THEN [i \in IPs |-> BlockExpiry(current_time)]
    ELSE blocked

BlockedAfterRecord(attempts, blocked, email, ip, current_time) ==
    IF ReachesBlockLimit(attempts, email)
    THEN IF ip \in DOMAIN blocked
         THEN [blocked EXCEPT ![ip] = BlockExpiry(current_time)]
         ELSE blocked @@ (ip :> BlockExpiry(current_time))
    ELSE blocked

(* ---------------------------------------------------------------------- *)
(* Requests on their way to a view: the before-request hooks of            *)
(* SecurityManager and jwt_required                                        *)
(* ---------------------------------------------------------------------- *)
\* a path is the sequence of its segments: /api/profile is <<"api", "profile">>
Endpoints ==
    { [method |-> "GET",  path |-> <<"api", "profile">>],
      [method |-> "PUT",  path |-> <<"api", "profile">>],
      [method |-> "POST", path |-> <<"api", "diet-plan">>],
      [method |-> "GET",  path |-> <<"api", "diet-plans">>],
      [method |-> "GET",  path |-> <<"api", "diet-plan", "1">>],
      [method |-> "POST", path |-> <<"api", "register">>],
      [method |-> "POST", path |-> <<"api", "login">>] }

\* the views decorated with jwt_required
ProtectedEndpoints ==
    { e \in Endpoints : e.path \notin { <<"api", "register">>, <<"api", "login">> } }

\* the Authorization header: not sent, a token that decodes, one that does not
AuthHeaders == { "absent", "valid", "invalid" }
\* the JSON body: no body, {}, a harmless object, an object that matches a
\* suspicious pattern, a JSON list
Bodies == { "none", "empty", "plain", "suspicious", "list" }
\* X-CSRF-Token header and csrf_token cookie
CsrfTokens == { "absent", "x", "y" }

NoRequest ==
    [method |-> "", path |-> <<>>, auth |-> "absent", body |-> "none",
     csrf_header |-> "absent", csrf_cookie |-> "absent", status |-> 0]

\* validate_json_input
ValidJsonInput(body) == body \notin { "list", "suspicious" }

\* validate_input: request.is_json and request.get_json() is false without a
\* body and for {}
InputRejected(body) ==
    body \notin { "none", "empty" } /\ ~ValidJsonInput(body)

\* request.path.startswith('/api/')
IsApiPath(path) == Len(path) >= 2 /\ path[1] = "api"

CsrfExemptPaths ==
    { <<"api", "register">>, <<"api", "login">>, <<"api", "health">> }

\* not token: the header or cookie is missing, or sent empty ("")
FalsyToken(token) == token \in { "absent", "" }

\* check_csrf skipping every request with an Authorization header, whatever
\* its path
CsrfRejected_AnyPathWithToken(method, path, auth, csrf_header, csrf_cookie) ==
    /\ method \in { "POST", "PUT", "DELETE" }
    /\ auth = "absent"
    /\ path \notin CsrfExemptPaths
    /\ \/ FalsyToken(csrf_header)
       \/ FalsyToken(csrf_cookie)
       \/ csrf_header # csrf_cookie

\* check_csrf
CsrfRejected(method, path, auth, csrf_header, csrf_cookie) ==
    /\ method \in { "POST", "PUT", "DELETE" }
    /\ ~(IsApiPath(path) /\ auth # "absent")
    /\ path \notin CsrfExemptPaths
    /\ \/ FalsyToken(csrf_header)
       \/ FalsyToken(csrf_cookie)
       \/ csrf_header # csrf_cookie

\* jwt_required: 401 without the header, 422 for a token that does not
\* decode; 0 stands for the call of the view
JwtStatus(auth) ==
    CASE auth = "absent" -> 401
      [] auth = "invalid" -> 422
      [] OTHER -> 0

\* the status the request is answered with before its view runs, or 0
GateStatus(endpoint, auth, body, csrf_header, csrf_cookie) ==
    IF InputRejected(body) THEN 400
    ELSE IF CsrfRejected(endpoint.method, endpoint.path, auth, csrf_header, csrf_cookie)
    THEN 403
    ELSE IF endpoint \in ProtectedEndpoints THEN JwtStatus(auth)
    ELSE 0

(* ---------------------------------------------------------------------- *)
(* validate_user_data and register()                                       *)
(* ---------------------------------------------------------------------- *)
LowerLetters ==
    {
      "a", "b", "c", "d", "e", "f", "g", "h", "i", "j", "k", "l", "m", "n",
      "o", "p", "q", "r", "s", "t", "u", "v", "w", "x", "y", "z" }
UpperLetters ==
    {
      "A", "B", "C", "D", "E", "F", "G", "H", "I", "J", "K", "L", "M", "N",
      "O", "P", "Q", "R", "S", "T", "U", "V", "W", "X", "Y", "Z" }
Letters == LowerLetters \cup UpperLetters
Digits == { "0", "1", "2", "3", "4", "5", "6", "7", "8", "9" }
LocalChars == Letters \cup Digits \cup { ".", "_", "%", "+", "-" }
DomainChars == Letters \cup Digits \cup { ".", "-" }

\* re.match(r"^[a-zA-Z0-9._%+-]+@[a-zA-Z0-9.-]+\.[a-zA-Z]{2,}$", s)
MatchesEmailPattern(s) ==
    \E i \in 1..Len(s), j \in 1..Len(s) :
        /\ s[i] = "@"
        /\ i >= 2
        /\ \A k \in 1..(i - 1) : s[k] \in LocalChars
        /\ s[j] = "."
        /\ j >= i + 2
        /\ \A k \in (i + 1)..(j - 1) : s[k] \in DomainChars
        /\ Len(s) - j >= 2
        /\ \A k \in (j + 1)..Len(s) : s[k] \in Letters

EMAIL_MIN_LENGTH == 5
EMAIL_MAX_LENGTH == 255
PASSWORD_MIN_LENGTH == 6
PASSWORD_MAX_LENGTH == 100
HEIGHT_MIN == 100
HEIGHT_MAX == 250
DEFAULT_HEIGHT == 170

\* JSON null, and a JSON number with its value
Null == [t |-> "null", v |-> <<>>]
NumOf(n) == [t |-> "num", v |-> n]

AllowedActivityLevels ==
    {
      <<"s","e","d","e","n","t","a","r","y">>, <<"l","i","g","h","t">>,
      <<"m","o","d","e","r","a","t","e">>, <<"a","c","t","i","v","e">>,
      <<"v","e","r","y","_","a","c","t","i","v","e">> }
AllowedDietPreferences ==
    {
      <<"b","a","l","a","n","c","e","d">>,
      <<"v","e","g","e","t","a","r","i","a","n">>, <<"v","e","g","a","n">>,
      <<"k","e","t","o">>, <<"p","a","l","e","o">>,
      <<"m","e","d","i","t","e","r","r","a","n","e","a","n">>,
      <<"l","o","w","_","c","a","r","b">>,
      <<"h","i","g","h","_","p","r","o","t","e","i","n">> }
Moderate == <<"m","o","d","e","r","a","t","e">>
Balanced == <<"b","a","l","a","n","c","e","d">>
Keto == <<"k","e","t","o">>

\* value is None or (isinstance(value, str) and value.strip() == "")
IsBlank(value) ==
    value.t = "null" \/ (value.t = "str" /\ Strip(value.v) = <<>>)

\* the value validate_user_data leaves in data[field]: strings are trimmed
Trimmed(value) == IF value.t = "str" THEN Str(Strip(value.v)) ELSE value

\* User.query.filter_by(email=email)
FindUser(table, email) == { u \in table : u.email = email }

\* the checks of the loop over validation_rules on one string field; numbers
\* pass, email and password have no min_value or max_value
RuleViolated(value, required, min_length, max_length) ==
    IF value.t = "absent" THEN required
    ELSE IF IsBlank(value) THEN TRUE
    ELSE IF value.t = "str"
         THEN Len(Strip(value.v)) < min_length \/ Len(Strip(value.v)) > max_length
         ELSE FALSE

\* the checks of the loop over optional_fields on height
HeightViolated(value) ==
    /\ value.t = "num"
    /\ (value.v < HEIGHT_MIN \/ value.v > HEIGHT_MAX)

\* the checks of the loop over optional_fields on a field with allowed_values
ChoiceViolated(value, allowed) ==
    /\ value.t = "str"
    /\ Strip(value.v) # <<>>
    /\ Lower(Strip(value.v)) \notin allowed

\* validate_user_data: "ok" for None, "error" for a message, "raise" when
\* re.match is given an email that is not a string.  The body's name, age,
\* gender and weight are valid when it registers and absent when it updates.
ValidationResult(body, is_update) ==
    IF RuleViolated(body.email, ~is_update, EMAIL_MIN_LENGTH, EMAIL_MAX_LENGTH)
    THEN "error"
    ELSE IF RuleViolated(body.password, ~is_update, PASSWORD_MIN_LENGTH,
                         PASSWORD_MAX_LENGTH)
    THEN "error"
    ELSE IF body.email.t \notin { "absent", "str" } THEN "raise"
    ELSE IF body.email.t = "str" /\ ~MatchesEmailPattern(Strip(body.email.v))
    THEN "error"
    ELSE IF HeightViolated(body.height) THEN "error"
    ELSE IF ChoiceViolated(body.activity_level, AllowedActivityLevels) THEN "error"
    ELSE IF ChoiceViolated(body.diet_preference, AllowedDietPreferences)
    THEN "error"
    ELSE "ok"

\* data[field] of an optional field after validation: an empty string has
\* become None, another string is trimmed
ValidatedOptional(value) == IF IsBlank(value) THEN Null ELSE Trimmed(value)

\* data.get(field, default)
GetOr(value, default) == IF value.t = "absent" THEN default ELSE value

\* the row register() adds: User(...) and set_password
NewUser(table, body) ==
    [id |-> Cardinality(table) + 1,
     email |-> Strip(body.email.v),
     password |-> Strip(body.password.v),
     height |-> GetOr(ValidatedOptional(body.height), Null),
     activity_level |-> GetOr(ValidatedOptional(body.activity_level), Str(Moderate)),
     diet_preference |-> GetOr(ValidatedOptional(body.diet_preference), Str(Balanced))]

\* register(): the status and the users table it leaves
RegisterOutcome(table, body) ==
    LET valid == ValidationResult(body, FALSE)
    IN IF valid = "raise" THEN [status |-> 500, table |-> table]
       ELSE IF valid = "error" THEN [status |-> 400, table |-> table]
       ELSE IF FindUser(table, Strip(body.email.v)) # {}
       THEN [status |-> 409, table |-> table]
       ELSE IF body.password.t # "str" THEN [status |-> 500, table |-> table]
       ELSE [status |-> 201, table |-> table \cup { NewUser(table, body) }]

\* update_profile(): "password" is removed from data when it is not sent or falsy
PopFalsyPassword(body) ==
    IF \/ body.password.t \in { "absent", "null" }
       \/ body.password = Str(<<>>)
       \/ body.password = NumOf(0)
    THEN [body EXCEPT !.password = Absent]
    ELSE body

\* "email" in data and data["email"] != user.email, after validation
EmailChanges(user, body) ==
    body.email.t = "str" /\ Strip(body.email.v) # user.email

\* the row after the setattr loop and set_password
UpdatedUser(user, body) ==
    LET data == PopFalsyPassword(body)
        Set(old, value) == IF value.t = "absent" THEN old ELSE ValidatedOptional(value)
    IN [id |-> user.id,
        email |-> IF data.email.t = "str" THEN Strip(data.email.v) ELSE user.email,
        password |-> IF data.password.t = "str" THEN Strip(data.password.v)
                     ELSE user.password,
        height |-> Set(user.height, data.height),
        activity_level |-> Set(user.activity_level, data.activity_level),
        diet_preference |-> Set(user.diet_preference, data.diet_preference)]

\* update_profile(): the status and the users table it leaves
UpdateOutcome(table, user, body) ==
    LET data == PopFalsyPassword(body)
        valid == ValidationResult(data, TRUE)
    IN IF valid = "raise" THEN [status |-> 500, table |-> table]
       ELSE IF valid = "error" THEN [status |-> 400, table |-> table]
       ELSE IF EmailChanges(user, data) /\ FindUser(table, Strip(data.email.v)) # {}
       THEN [status |-> 409, table |-> table]
       ELSE IF data.password.t \notin { "absent", "str" }
       THEN [status |-> 500, table |-> table]
       ELSE [status |-> 200,
             table |-> (table \ { user }) \cup { UpdatedUser(user, body) }]

(* ---------------------------------------------------------------------- *)
(* State after construction                                                *)
(* ---------------------------------------------------------------------- *)
IdleRequest ==
    [pc |-> "idle", email |-> <<>>, password |-> Absent, ip |-> "",
     status |-> 0, msg |-> "", allowed |-> "none", verified |-> FALSE,
     valid |-> FALSE, recorded |-> 0]

Slots == {1}
Threads == {1, 2}

NoData ==
    [name |-> Absent, email |-> Absent, password |-> Absent, age |-> Absent,
     gender |-> Absent, weight |-> Absent, height |-> Absent,
     activity_level |-> Absent, diet_preference |-> Absent]

\* nth: the place of a login in a run of equal requests; hit: its place
\* among the logins of its address in the minute; by: what answered it;
\* before: the in-window failures stored for its identifier when it came;
\* gemini: what the Gemini call of a diet-plan request did; stored: the rows
\* of the table the request writes to, as they were when it came; keys: the
\* fields of the JSON answer; data: the JSON object of a registration;
\* plan: the plan id of the path; rows: the rows the answer holds
NoAnswer ==
    [op |-> "none", email |-> Absent, password |-> Absent, ip |-> "",
     allowed |-> FALSE, status |-> 0, user |-> 0,
     nth |-> 0, hit |-> 0, by |-> "", text |-> <<>>, before |-> 0,
     gemini |-> "", stored |-> {}, keys |-> {}, data |-> NoData,
     plan |-> 0, rows |-> {}]

IdleWorker ==
    [pc |-> "idle", op |-> "", user |-> 0, body |-> <<>>, status |-> 0,
     taken |-> FALSE, ip |-> ""]

IdleThread == [pc |-> "idle", email |-> <<>>, ip |-> "", time |-> 0, tmp |-> <<>>]

Init ==
    /\ now = 0
    /\ nticks = 0
    /\ failed_login_attempts = <<>>
    /\ blocked_ips = <<>>
    /\ users = {}
    /\ req = [r \in Slots |-> IdleRequest]
    /\ ret = NoCall
    /\ hist = [e \in Identifiers |-> <<>>]
    /\ tenthIp = [e \in Identifiers |-> ""]
    /\ lateFail = [i \in IPs |-> -1]
    /\ okAt = [e \in Identifiers |-> -1]
    /\ twin = [attempts |-> <<>>, blocked |-> <<>>, status |-> 0, msg |-> ""]
    /\ thr = [t \in Threads |-> IdleThread]
    /\ calls = 0
    /\ gate = NoRequest
    /\ acct = NoAnswer
    /\ signed = <<>>
    /\ plans = {}
    /\ work = [t \in Threads |-> IdleWorker]
    /\ limiter = [i \in IPs |-> [minute |-> 0, hits |-> 0]]
    /\ monitor = [request_count |-> 0, error_count |-> 0]

(* ---------------------------------------------------------------------- *)
(* The two throttle calls, as they act on the SecurityManager              *)
(* ---------------------------------------------------------------------- *)
CheckCall(email, ip) ==
    LET pruned == PrunedAttempts(failed_login_attempts, email, now)
    IN /\ failed_login_attempts' = pruned
       /\ ret' = [op |-> "check", email |-> email, ip |-> ip,
                  result |-> RateLimitResult(pruned, blocked_ips, email, ip, now)]
       /\ UNCHANGED <<blocked_ips, hist, tenthIp, lateFail>>

RecordBound(email) ==
    IF email = FirstIdentifier THEN MaxRecords ELSE MaxOtherRecords

RecordCall(email, ip) ==
    LET appended == AppendedAttempts(failed_login_attempts, email, now)
    IN /\ Len(hist[email]) < RecordBound(email)
       /\ failed_login_attempts' = appended
       /\ blocked_ips' = BlockedAfterRecord(appended, blocked_ips, email, ip, now)
       /\ ret' = [op |-> "record", email |-> email, ip |-> ip,
                  result |-> ReachesBlockLimit(appended, email)]
       /\ hist' = [hist EXCEPT ![email] = Append(@, now)]
       /\ tenthIp' = IF Len(hist[email]) + 1 = IP_BLOCK_LIMIT
                     THEN [tenthIp EXCEPT ![email] = ip] ELSE tenthIp
       /\ lateFail' = IF Len(hist[email]) + 1 >= IP_BLOCK_LIMIT
                      THEN [lateFail EXCEPT ![ip] = now] ELSE lateFail

\* time.time() advances between calls
Tick ==
    /\ nticks < Len(TickSteps)
    /\ now' = now + TickSteps[nticks + 1]
    /\ nticks' = nticks + 1
    /\ ret' = NoCall
    /\ UNCHANGED <<failed_login_attempts, blocked_ips, users, req,
                   hist, tenthIp, lateFail, okAt, aside>>

(* ---------------------------------------------------------------------- *)
(* Spec: the throttle called directly, one call at a time                  *)
(* ---------------------------------------------------------------------- *)
rate_limit_login_attempts(email, ip) ==
    /\ CheckCall(email, ip)
    /\ UNCHANGED <<now, nticks, users, req, okAt, aside>>

record_failed_login(email, ip) ==
    /\ RecordCall(email, ip)
    /\ UNCHANGED <<now, nticks, users, req, okAt, aside>>

Next ==
    \/ Tick
    \/ \E e \in Identifiers, i \in IPs : rate_limit_login_attempts(e, i)
    \/ \E e \in Identifiers, i \in IPs : record_failed_login(e, i)

Spec == Init /\ [][Next]_vars

(* ---------------------------------------------------------------------- *)
(* SpecWindow: the throttle called directly, one call at a time, with a    *)
(* clock that moves by a whole window                                      *)
(* ---------------------------------------------------------------------- *)
WindowTick ==
    /\ nticks < Len(LoginTickSteps)
    /\ now' = now + LoginTickSteps[nticks + 1]
    /\ nticks' = nticks + 1
    /\ ret' = NoCall
    /\ UNCHANGED <<failed_login_attempts, blocked_ips, users, req,
                   hist, tenthIp, lateFail, okAt, aside>>

NextWindow ==
    \/ WindowTick
    \/ \E e \in Identifiers, i \in IPs : rate_limit_login_attempts(e, i)
    \/ \E e \in Identifiers, i \in IPs : record_failed_login(e, i)

SpecWindow == Init /\ [][NextWindow]_vars

(* ---------------------------------------------------------------------- *)
(* The users table and the login handler (app.py)                          *)
(* ---------------------------------------------------------------------- *)
LoginEmails == { Str(s) : s \in RawEmails } \cup { Num, Absent }
LoginPasswords == { Str(P1), Str(P2), Num, Absent }
LoginBodies == [email : LoginEmails, password : LoginPasswords]

RegisterEmails == { <<"a","@","b",".","c","o">>, <<"A","@","b",".","c","o">> }
RegisterPasswords == { P1 }

\* if "email" not in data or "password" not in data
HasLoginFields(body) == body.email.t # "absent" /\ body.password.t # "absent"

\* lookup and User.check_password: "unknown", "wrong", "ok", or "error" when
\* password.encode raises because the JSON value is not a string
VerifyOutcome(table, email, password) ==
    IF FindUser(table, email) = {} THEN "unknown"
    ELSE IF password.t # "str" THEN "error"
    ELSE IF \E u \in FindUser(table, email) : u.password = password.v THEN "ok"
    ELSE "wrong"

\* faulty variant of AttemptsAfterSuccess: a successful login clears the history
AttemptsAfterSuccess_Clears(attempts, email) ==
    IF email \in DOMAIN attempts THEN [attempts EXCEPT ![email] = <<>>] ELSE attempts

\* the ledger after a successful login: the handler makes no throttle call
AttemptsAfterSuccess(attempts, email) == attempts

\* register(): validate_user_data trims the strings, then the row is added
\* unless the email is taken
Register(rawEmail, rawPassword) ==
    LET email == Strip(rawEmail)
        password == Strip(rawPassword)
    IN /\ Cardinality(users) < MaxUsers
       /\ FindUser(users, email) = {}
       /\ users' = users \cup {[email |-> email, password |-> password]}
       /\ UNCHANGED <<now, nticks, failed_login_attempts, blocked_ips, req, ret,
                      hist, tenthIp, lateFail, okAt, aside>>

\* the JSON text sent with each status
MessageOf(code) ==
    CASE code = 200 -> "Login successful"
      [] code = 400 -> "Email and password are required"
      [] code = 401 -> "Invalid email or password"
      [] code = 429 -> "Too many login attempts. Please try again later."
      [] OTHER -> "Internal server error"

\* return jsonify(...), code
Answer(request, code) ==
    [request EXCEPT !.pc = "done", !.status = code, !.msg = MessageOf(code),
                    !.password = Absent, !.ip = ""]

\* faulty variant of AfterCheck: a denied request is not answered but goes on
AfterCheck_GoesOn(allowed, email, body, ip) ==
    [IdleRequest EXCEPT !.pc = "verify", !.email = email,
                        !.password = body.password, !.ip = ip,
                        !.allowed = IF allowed THEN "yes" ELSE "no"]

\* the request once rate_limit_login_attempts has returned
AfterCheck(allowed, email, body, ip) ==
    IF allowed
    THEN [IdleRequest EXCEPT !.pc = "verify", !.email = email,
                             !.password = body.password, !.ip = ip,
                             !.allowed = "yes"]
    ELSE Answer([IdleRequest EXCEPT !.email = email, !.allowed = "no"], 429)

\* login(), from get_json to the throttle check
LoginBegin(r, body, ip) ==
    /\ req[r].pc \in {"idle", "done"}
    /\ IF ~HasLoginFields(body)
       THEN /\ req' = [req EXCEPT ![r] = Answer(IdleRequest, 400)]
            /\ UNCHANGED throttle
       ELSE IF body.email.t # "str"
       THEN /\ req' = [req EXCEPT ![r] = Answer(IdleRequest, 500)]
            /\ UNCHANGED throttle
       ELSE LET email == NormalizeEmail(body.email.v)
            IN /\ CheckCall(email, ip)
               /\ req' = [req EXCEPT ![r] = AfterCheck(ret'.result, email, body, ip)]
    /\ UNCHANGED <<now, nticks, users, okAt, aside>>

\* login(), user lookup and password check
LoginVerify(r) ==
    LET outcome == VerifyOutcome(users, req[r].email, req[r].password)
        seen == [req[r] EXCEPT !.verified = TRUE,
                               !.valid = \E u \in users :
                                            /\ u.email = req[r].email
                                            /\ req[r].password = Str(u.password)]
    IN /\ req[r].pc = "verify"
       /\ CASE outcome = "ok" ->
                 /\ req' = [req EXCEPT ![r] = Answer(seen, 200)]
                 /\ failed_login_attempts' =
                        AttemptsAfterSuccess(failed_login_attempts, req[r].email)
                 /\ okAt' = [okAt EXCEPT ![req[r].email] = Len(hist[req[r].email])]
            [] outcome = "error" ->
                 /\ req' = [req EXCEPT ![r] = Answer(seen, 500)]
                 /\ UNCHANGED <<failed_login_attempts, okAt>>
            [] OTHER ->
                 /\ req' = [req EXCEPT ![r] = [seen EXCEPT !.pc = "record"]]
                 /\ UNCHANGED <<failed_login_attempts, okAt>>
       /\ UNCHANGED <<now, nticks, blocked_ips, users, ret, hist, tenthIp, lateFail,
                      aside>>

\* login(), the two branches that end in 401
LoginFail(r) ==
    /\ req[r].pc = "record"
    /\ RecordCall(req[r].email, req[r].ip)
    /\ req' = [req EXCEPT ![r] = Answer([req[r] EXCEPT !.recorded = @ + 1], 401)]
    /\ UNCHANGED <<now, nticks, users, okAt, aside>>

\* time.time() advances between the steps of the handler
LoginTick ==
    /\ nticks < Len(LoginTickSteps)
    /\ now' = now + LoginTickSteps[nticks + 1]
    /\ nticks' = nticks + 1
    /\ UNCHANGED <<failed_login_attempts, blocked_ips, users, req, ret,
                   hist, tenthIp, lateFail, okAt, aside>>

NextLogin ==
    \/ LoginTick
    \/ \E e \in RegisterEmails, p \in RegisterPasswords : Register(e, p)
    \/ \E r \in Slots, b \in LoginBodies, i \in IPs : LoginBegin(r, b, i)
    \/ \E r \in Slots : LoginVerify(r)
    \/ \E r \in Slots : LoginFail(r)

SpecLogin == Init /\ [][NextLogin]_vars

(* ---------------------------------------------------------------------- *)
(* SpecTwin: login() run to its answer, one request at a time, on the      *)
(* application and on a twin whose users table lacks the target email      *)
(* ---------------------------------------------------------------------- *)
TargetEmail == FirstIdentifier

TwinUsers == { u \in users : u.email # TargetEmail }

\* login() from the first line to its return: the answer and the two maps
LoginResponse(attempts, blocked, table, body, ip, current_time) ==
    IF ~HasLoginFields(body)
    THEN [status |-> 400, attempts |-> attempts, blocked |-> blocked]
    ELSE IF body.email.t # "str"
    THEN [status |-> 500, attempts |-> attempts, blocked |-> blocked]
    ELSE
      LET email == NormalizeEmail(body.email.v)
          pruned == PrunedAttempts(attempts, email, current_time)
          outcome == VerifyOutcome(table, email, body.password)
          appended == AppendedAttempts(pruned, email, current_time)
      IN IF ~RateLimitResult(pruned, blocked, email, ip, current_time)
         THEN [status |-> 429, attempts |-> pruned, blocked |-> blocked]
         ELSE CASE outcome = "ok" ->
                     [status |-> 200, attempts |-> AttemptsAfterSuccess(pruned, email),
                      blocked |-> blocked]
                [] outcome = "error" ->
                     [status |-> 500, attempts |-> pruned, blocked |-> blocked]
                [] OTHER ->
                     [status |-> 401, attempts |-> appended,
                      blocked |-> BlockedAfterRecord(appended, blocked, email, ip,
                                                     current_time)]

\* the submitted password is the registered password of the target
RightTargetPassword(body) ==
    /\ HasLoginFields(body)
    /\ body.email.t = "str"
    /\ NormalizeEmail(body.email.v) = TargetEmail
    /\ \E u \in FindUser(users, TargetEmail) : body.password = Str(u.password)

TwinLogin(body, ip) ==
    LET mine == LoginResponse(failed_login_attempts, blocked_ips, users, body, ip, now)
        other == LoginResponse(twin.attempts, twin.blocked, TwinUsers, body, ip, now)
    IN /\ ~RightTargetPassword(body)
       /\ failed_login_attempts' = mine.attempts
       /\ blocked_ips' = mine.blocked
       /\ req' = [req EXCEPT ![1] = Answer(IdleRequest, mine.status)]
       /\ twin' = [attempts |-> other.attempts, blocked |-> other.blocked,
                   status |-> other.status, msg |-> MessageOf(other.status)]
       /\ UNCHANGED <<now, nticks, users, ret, hist, tenthIp, lateFail, okAt, thr,
                      more>>

NextTwin ==
    \/ LoginTick
    \/ \E e \in RegisterEmails, p \in RegisterPasswords : Register(e, p)
    \/ \E b \in LoginBodies, i \in IPs : TwinLogin(b, i)

SpecTwin == Init /\ [][NextTwin]_vars

(* ---------------------------------------------------------------------- *)
(* SpecRace: two threads inside the throttle calls, one statement at a     *)
(* time; nothing in SecurityManager takes a lock                           *)
(* ---------------------------------------------------------------------- *)
RaceFrame == <<now, nticks, users, req, ret, tenthIp, lateFail, okAt, twin, more>>

\* a request thread enters rate_limit_login_attempts
EnterCheck(t, email, ip) ==
    /\ thr[t].pc = "idle"
    /\ thr' = [thr EXCEPT ![t] = [IdleThread EXCEPT !.pc = "c_test", !.email = email,
                                                    !.ip = ip, !.time = now]]
    /\ UNCHANGED <<failed_login_attempts, blocked_ips, hist, RaceFrame>>

\* if email in self.failed_login_attempts
CheckTest(t) ==
    /\ thr[t].pc = "c_test"
    /\ thr' = [thr EXCEPT ![t].pc =
                  IF thr[t].email \in DOMAIN failed_login_attempts
                  THEN "c_read" ELSE "c_ip"]
    /\ UNCHANGED <<failed_login_attempts, blocked_ips, hist, RaceFrame>>

\* the list comprehension builds the filtered copy
CheckRead(t) ==
    /\ thr[t].pc = "c_read"
    /\ thr' = [thr EXCEPT ![t].pc = "c_store",
                          ![t].tmp = SelectAfter(failed_login_attempts[thr[t].email],
                                                 thr[t].time - WINDOW)]
    /\ UNCHANGED <<failed_login_attempts, blocked_ips, hist, RaceFrame>>

\* self.failed_login_attempts[email] = <the copy>
CheckStore(t) ==
    /\ thr[t].pc = "c_store"
    /\ failed_login_attempts' =
          [failed_login_attempts EXCEPT ![thr[t].email] = thr[t].tmp]
    /\ thr' = [thr EXCEPT ![t].pc = "c_len", ![t].tmp = <<>>]
    /\ UNCHANGED <<blocked_ips, hist, RaceFrame>>

\* the length test, the blocklist test and the return
CheckReturn(t) ==
    /\ thr[t].pc \in {"c_len", "c_ip"}
    /\ thr' = [thr EXCEPT ![t] = IdleThread]
    /\ UNCHANGED <<failed_login_attempts, blocked_ips, hist, RaceFrame>>

\* a request thread enters record_failed_login
EnterRecord(t, email, ip) ==
    /\ thr[t].pc = "idle"
    /\ Len(hist[email]) < MaxRaceRecords
    /\ thr' = [thr EXCEPT ![t] = [IdleThread EXCEPT !.pc = "r_test", !.email = email,
                                                    !.ip = ip, !.time = now]]
    /\ UNCHANGED <<failed_login_attempts, blocked_ips, hist, RaceFrame>>

\* if email not in self.failed_login_attempts
RecordTest(t) ==
    /\ thr[t].pc = "r_test"
    /\ thr' = [thr EXCEPT ![t].pc =
                  IF thr[t].email \notin DOMAIN failed_login_attempts
                  THEN "r_init" ELSE "r_append"]
    /\ UNCHANGED <<failed_login_attempts, blocked_ips, hist, RaceFrame>>

\* self.failed_login_attempts[email] = []
RecordInit(t) ==
    /\ thr[t].pc = "r_init"
    /\ failed_login_attempts' =
          IF thr[t].email \in DOMAIN failed_login_attempts
          THEN [failed_login_attempts EXCEPT ![thr[t].email] = <<>>]
          ELSE failed_login_attempts @@ (thr[t].email :> <<>>)
    /\ thr' = [thr EXCEPT ![t].pc = "r_append"]
    /\ UNCHANGED <<blocked_ips, hist, RaceFrame>>

\* self.failed_login_attempts[email].append(current_time)
RecordAppend(t) ==
    /\ thr[t].pc = "r_append"
    /\ failed_login_attempts' =
          [failed_login_attempts EXCEPT ![thr[t].email] = Append(@, thr[t].time)]
    /\ hist' = [hist EXCEPT ![thr[t].email] = Append(@, thr[t].time)]
    /\ thr' = [thr EXCEPT ![t].pc = "r_block"]
    /\ UNCHANGED <<blocked_ips, RaceFrame>>

\* the length test and the block
RecordBlock(t) ==
    /\ thr[t].pc = "r_block"
    /\ blocked_ips' = BlockedAfterRecord(failed_login_attempts, blocked_ips,
                                         thr[t].email, thr[t].ip, thr[t].time)
    /\ thr' = [thr EXCEPT ![t] = IdleThread]
    /\ UNCHANGED <<failed_login_attempts, hist, RaceFrame>>

NextRace ==
    \/ \E t \in Threads, e \in Identifiers, i \in IPs : EnterCheck(t, e, i)
    \/ \E t \in Threads : CheckTest(t)
    \/ \E t \in Threads : CheckRead(t)
    \/ \E t \in Threads : CheckStore(t)
    \/ \E t \in Threads : CheckReturn(t)
    \/ \E t \in Threads, e \in Identifiers, i \in IPs : EnterRecord(t, e, i)
    \/ \E t \in Threads : RecordTest(t)
    \/ \E t \in Threads : RecordInit(t)
    \/ \E t \in Threads : RecordAppend(t)
    \/ \E t \in Threads : RecordBlock(t)

SpecRace == Init /\ [][NextRace]_vars

(* ---------------------------------------------------------------------- *)
(* SpecIdem: the throttle called directly, with the repetitions of a check *)
(* counted                                                                 *)
(* ---------------------------------------------------------------------- *)
\* the call repeats the check that was made last, at the same time
RepeatsLastCall(email, ip) ==
    ret.op = "check" /\ ret.email = email /\ ret.ip = ip

IdemCheck(email, ip) ==
    /\ CheckCall(email, ip)
    /\ calls' = IF RepeatsLastCall(email, ip)
                THEN (IF calls < MaxRepeats THEN calls + 1 ELSE calls)
                ELSE 1
    /\ UNCHANGED <<now, nticks, users, req, okAt, twin, thr, gate, account, rest>>

IdemRecord(email, ip) ==
    /\ Len(hist[email]) < MaxIdemRecords
    /\ RecordCall(email, ip)
    /\ calls' = 0
    /\ UNCHANGED <<now, nticks, users, req, okAt, twin, thr, gate, account, rest>>

IdemTick ==
    /\ nticks < Len(TickSteps)
    /\ now' = now + TickSteps[nticks + 1]
    /\ nticks' = nticks + 1
    /\ ret' = NoCall
    /\ calls' = 0
    /\ UNCHANGED <<failed_login_attempts, blocked_ips, users, req,
                   hist, tenthIp, lateFail, okAt, twin, thr, gate, account, rest>>

NextIdem ==
    \/ IdemTick
    \/ \E e \in Identifiers, i \in IPs : IdemCheck(e, i)
    \/ \E e \in Identifiers, i \in IPs : IdemRecord(e, i)

SpecIdem == Init /\ [][NextIdem]_vars

(* ---------------------------------------------------------------------- *)
(* SpecGate: requests answered by the before-request hooks or passed on    *)
(* ---------------------------------------------------------------------- *)
GateRequest(endpoint, auth, body, csrf_header, csrf_cookie) ==
    /\ gate' = [method |-> endpoint.method, path |-> endpoint.path, auth |-> auth,
                body |-> body, csrf_header |-> csrf_header,
                csrf_cookie |-> csrf_cookie,
                status |-> GateStatus(endpoint, auth, body, csrf_header, csrf_cookie)]
    /\ UNCHANGED <<now, nticks, failed_login_attempts, blocked_ips, users, req, ret,
                   hist, tenthIp, lateFail, okAt, twin, thr, calls, account,
                   rest>>

NextGate ==
    \E e \in Endpoints, a \in AuthHeaders, b \in Bodies, h \in CsrfTokens,
       c \in CsrfTokens : GateRequest(e, a, b, h, c)

SpecGate == Init /\ [][NextGate]_vars

(* ---------------------------------------------------------------------- *)
(* SpecMonitor: requests passing the before-request hooks in the order of  *)
(* their registration (validate_input, check_csrf, then the monitor's      *)
(* before_request), their view, and the monitor's after_request            *)
(* ---------------------------------------------------------------------- *)
MonitoredEndpoints ==
    { [method |-> "GET",  path |-> <<"api", "profile">>],
      [method |-> "PUT",  path |-> <<"api", "profile">>],
      [method |-> "POST", path |-> <<"api", "login">>] }
MonitoredAuthHeaders == { "absent", "valid" }
MonitoredBodies == { "none", "plain", "suspicious" }
MonitoredCsrfTokens == { "absent", "x" }
\* the status a view answers with
ViewStatuses == { 200, 500 }

\* a before-request hook registered before the monitor's answers the request:
\* the hooks after it are not run
AnsweredBeforeMonitor(endpoint, auth, body, csrf_header, csrf_cookie) ==
    \/ InputRejected(body)
    \/ CsrfRejected(endpoint.method, endpoint.path, auth, csrf_header, csrf_cookie)

\* the monitor's before_request, run unless an earlier hook has answered
CountedRequest(counters, endpoint, auth, body, csrf_header, csrf_cookie) ==
    IF AnsweredBeforeMonitor(endpoint, auth, body, csrf_header, csrf_cookie)
    THEN counters
    ELSE [counters EXCEPT !.request_count = @ + 1]

\* the monitor's after_request, run for every response
CountedResponse(counters, status) ==
    IF status >= 400 THEN [counters EXCEPT !.error_count = @ + 1] ELSE counters

\* error_rate of _get_application_metrics, in whole percent
ErrorRate(counters) ==
    (counters.error_count * 100)
        \div (IF counters.request_count > 1 THEN counters.request_count ELSE 1)

MonitoredRequest(endpoint, auth, body, csrf_header, csrf_cookie, code) ==
    LET early == GateStatus(endpoint, auth, body, csrf_header, csrf_cookie)
        status == IF early # 0 THEN early ELSE code
    IN /\ calls < MaxRequests
       /\ calls' = calls + 1
       /\ gate' = [method |-> endpoint.method, path |-> endpoint.path,
                   auth |-> auth, body |-> body, csrf_header |-> csrf_header,
                   csrf_cookie |-> csrf_cookie, status |-> status]
       /\ monitor' = CountedResponse(
                         CountedRequest(monitor, endpoint, auth, body, csrf_header,
                                        csrf_cookie),
                         status)
       /\ UNCHANGED <<now, nticks, failed_login_attempts, blocked_ips, users, req,
                      ret, hist, tenthIp, lateFail, okAt, twin, thr, account, work,
                      limiter>>

NextMonitor ==
    \E e \in MonitoredEndpoints, a \in MonitoredAuthHeaders, b \in MonitoredBodies,
       h \in MonitoredCsrfTokens, c \in MonitoredCsrfTokens, code \in ViewStatuses :
        MonitoredRequest(e, a, b, h, c, code)

SpecMonitor == Init /\ [][NextMonitor]_vars

(* ---------------------------------------------------------------------- *)
(* SpecSignup: register() and login(), each run from its first line to its *)
(* answer, one request at a time                                           *)
(* ---------------------------------------------------------------------- *)
Secret == <<"s","e","c","r","e","t">>
SecretPadded == <<" ","s","e","c","r","e","t">>
Secret2 == <<"s","e","c","r","e","2">>

SignupEmails ==
    { Str(<<"a","@","b",".","c","o">>),
      Str(<<"A","@","b",".","c","o">>),
      Str(<<" ","a","@","b",".","c","o">>) }

\* a register body without the optional fields
SignupBodies ==
    [email : SignupEmails \cup { Str(<<"a","b">>) },
     password : { Str(Secret), Str(SecretPadded), Str(P1) },
     height : { Absent }, activity_level : { Absent }, diet_preference : { Absent }]

SignupLoginBodies ==
    [email : SignupEmails, password : { Str(Secret), Str(SecretPadded), Str(Secret2) }]

\* the value rate_limit_login_attempts returns to login() for this request
LoginAllowed(attempts, blocked, body, ip, current_time) ==
    /\ HasLoginFields(body)
    /\ body.email.t = "str"
    /\ RateLimitResult(PrunedAttempts(attempts, NormalizeEmail(body.email.v),
                                      current_time),
                       blocked, NormalizeEmail(body.email.v), ip, current_time)

\* the in-window failures the ledger holds for the identifier of the request
FailuresBefore(attempts, body, current_time) ==
    IF body.email.t = "str" /\ NormalizeEmail(body.email.v) \in DOMAIN attempts
    THEN Len(SelectAfter(attempts[NormalizeEmail(body.email.v)],
                         current_time - WINDOW))
    ELSE 0

RegisterRequest(body) ==
    LET out == RegisterOutcome(users, body)
        id == Cardinality(users) + 1
    IN /\ Cardinality(users) < MaxUsers
       /\ users' = out.table
       /\ acct' = [NoAnswer EXCEPT !.op = "register", !.email = body.email,
                                   !.password = body.password,
                                   !.status = out.status,
                                   !.user = IF out.status = 201 THEN id ELSE 0]
       /\ signed' = IF out.status = 201
                    THEN signed @@ (id :> [email |-> body.email,
                                           password |-> body.password,
                                           old |-> Absent])
                    ELSE signed
       /\ UNCHANGED <<now, nticks, failed_login_attempts, blocked_ips, req, ret,
                      hist, tenthIp, lateFail, okAt, twin, thr, calls, gate, plans,
                      rest>>

LoginRequest(body, ip) ==
    LET out == LoginResponse(failed_login_attempts, blocked_ips, users, body, ip, now)
    IN /\ failed_login_attempts' = out.attempts
       /\ blocked_ips' = out.blocked
       /\ acct' = [NoAnswer EXCEPT !.op = "login", !.email = body.email,
                                   !.password = body.password, !.ip = ip,
                                   !.allowed = LoginAllowed(failed_login_attempts,
                                                            blocked_ips, body, ip, now),
                                   !.before = FailuresBefore(failed_login_attempts,
                                                             body, now),
                                   !.status = out.status]
       /\ UNCHANGED <<now, nticks, users, req, ret, hist, tenthIp, lateFail, okAt,
                      twin, thr, calls, gate, signed, plans, rest>>

NextSignup ==
    \/ LoginTick
    \/ \E b \in SignupBodies : RegisterRequest(b)
    \/ \E b \in SignupLoginBodies, i \in IPs : LoginRequest(b, i)

SpecSignup == Init /\ [][NextSignup]_vars

\* the server goes on answering: some request or clock advance always follows
SpecSignupLive == SpecSignup /\ WF_vars(NextSignup)

(* ---------------------------------------------------------------------- *)
(* SpecProfile: register(), update_profile() with the token of a user, and *)
(* login(), each run from its first line to its answer                     *)
(* ---------------------------------------------------------------------- *)
\* a profile update that sends nothing but a password
PasswordBodies ==
    [email : { Absent },
     password : { Str(Secret), Str(SecretPadded), Str(Secret2), Str(<<>>) },
     height : { Absent }, activity_level : { Absent }, diet_preference : { Absent }]

\* the update sets a password
SetsPassword(body) == PopFalsyPassword(body).password.t = "str"

UpdateRequest(user, body) ==
    LET out == UpdateOutcome(users, user, body)
    IN /\ users' = out.table
       /\ acct' = [NoAnswer EXCEPT !.op = "update", !.password = body.password,
                                   !.status = out.status, !.user = user.id]
       /\ signed' = IF out.status = 200 /\ SetsPassword(body)
                    THEN [signed EXCEPT ![user.id].password = body.password,
                                        ![user.id].old = signed[user.id].password]
                    ELSE signed
       /\ UNCHANGED <<now, nticks, failed_login_attempts, blocked_ips, req, ret,
                      hist, tenthIp, lateFail, okAt, twin, thr, calls, gate, plans,
                      rest>>

NextProfile ==
    \/ \E b \in SignupBodies : RegisterRequest(b)
    \/ \E u \in users, b \in PasswordBodies : UpdateRequest(u, b)
    \/ \E b \in SignupLoginBodies, i \in IPs : LoginRequest(b, i)

SpecProfile == Init /\ [][NextProfile]_vars

(* ---------------------------------------------------------------------- *)
(* SpecPlan: register() and generate_diet_plan() with the token of a user, *)
(* each run from its first line to its answer, and the passing of days     *)
(* ---------------------------------------------------------------------- *)
SECONDS_PER_DAY == 86400
PLAN_DAYS == 6

PlanEmails == { <<"a","@","b",".","c","o">>, <<"c","@","d",".","c","o">> }

\* height, activity_level and diet_preference of a registration: all left
\* out, one of them empty or null, all filled
OptionalChoices ==
    { <<Absent, Absent, Absent>>,
      <<Str(<<>>), Absent, Absent>>, <<Null, Absent, Absent>>,
      <<Absent, Str(<<>>), Absent>>, <<Absent, Null, Absent>>,
      <<Absent, Absent, Str(<<>>)>>, <<Absent, Absent, Null>>,
      <<NumOf(180), Str(<<"a","c","t","i","v","e">>), Str(Keto)>> }

PlanBodies ==
    { [email |-> Str(e), password |-> Str(Secret), height |-> c[1],
       activity_level |-> c[2], diet_preference |-> c[3]] :
      e \in PlanEmails, c \in OptionalChoices }

\* what model.generate_content does: it answers with JSON text, answers with
\* text that holds no JSON, or raises
GeminiCalls == { "json", "text", "raises" }

\* Python's truth of a column value
Truthy(value) ==
    /\ value.t \notin { "null", "absent" }
    /\ value # Str(<<>>)
    /\ value # NumOf(0)

\* user_data of generate_diet_plan
UserData(user) ==
    [height |-> IF Truthy(user.height) THEN user.height.v ELSE DEFAULT_HEIGHT,
     activity_level |-> IF Truthy(user.activity_level) THEN user.activity_level
                        ELSE Str(Moderate),
     diet_preference |-> IF Truthy(user.diet_preference) THEN user.diet_preference
                         ELSE Str(Balanced)]

\* generate_diet_plan_with_gemini: "dict" for a plan (parsed, or the
\* structured fallback for text without JSON), "None" after any exception
GenerateDietPlanWithGemini(user_data, call) ==
    IF call = "raises" THEN "None" ELSE "dict"

\* datetime.now().date() as a day number
Today(current_time) == current_time \div SECONDS_PER_DAY

\* the row generate_diet_plan adds
NewDietPlan(stored, user, today) ==
    [id |-> Cardinality(stored) + 1, user_id |-> user.id,
     start_date |-> today, end_date |-> today + PLAN_DAYS]

\* the fields diet_plan_schema dumps
PlanKeys == { "id", "user_id", "plan_name", "start_date", "end_date",
              "total_calories", "plan_data", "created_at" }

\* generate_diet_plan stores the row before it looks at the Gemini result
DietPlanOutcome_StoresFirst(stored, user, call, today) ==
    IF GenerateDietPlanWithGemini(UserData(user), call) = "None"
    THEN [status |-> 500, plans |-> stored \cup { NewDietPlan(stored, user, today) },
          keys |-> { "error" }]
    ELSE IF user.diet_preference.t # "str"
    THEN [status |-> 500, plans |-> stored, keys |-> { "error" }]
    ELSE [status |-> 201, plans |-> stored \cup { NewDietPlan(stored, user, today) },
          keys |-> PlanKeys]

\* generate_diet_plan(): the status, the fields of the answer and the
\* diet_plans table it leaves; user.diet_preference.title() raises
\* AttributeError on None, which the handler's except answers
DietPlanOutcome(stored, user, call, today) ==
    IF GenerateDietPlanWithGemini(UserData(user), call) = "None"
    THEN [status |-> 500, plans |-> stored, keys |-> { "error" }]
    ELSE IF user.diet_preference.t # "str"
    THEN [status |-> 500, plans |-> stored, keys |-> { "error" }]
    ELSE [status |-> 201, plans |-> stored \cup { NewDietPlan(stored, user, today) },
          keys |-> PlanKeys]

DietPlanRequest(user, call) ==
    LET out == DietPlanOutcome(plans, user, call, Today(now))
    IN /\ Cardinality(plans) < MaxPlans
       /\ plans' = out.plans
       /\ acct' = [NoAnswer EXCEPT !.op = "plan", !.user = user.id,
                                   !.gemini = call, !.stored = plans,
                                   !.status = out.status, !.keys = out.keys]
       /\ UNCHANGED <<now, nticks, failed_login_attempts, blocked_ips, users, req,
                      ret, hist, tenthIp, lateFail, okAt, twin, thr, calls, gate,
                      signed, rest>>

\* seconds by which successive clock advances move datetime.now()
DaySteps == <<SECONDS_PER_DAY>>

\* a day passes
DayTick ==
    /\ nticks < Len(DaySteps)
    /\ now' = now + DaySteps[nticks + 1]
    /\ nticks' = nticks + 1
    /\ UNCHANGED <<throttle, users, req, okAt, aside>>

NextPlan ==
    \/ DayTick
    \/ \E b \in PlanBodies : RegisterRequest(b)
    \/ \E u \in users, c \in GeminiCalls : DietPlanRequest(u, c)

SpecPlan == Init /\ [][NextPlan]_vars

(* ---------------------------------------------------------------------- *)
(* SpecPlanRead: SpecPlan with get_diet_plan() and get_user_diet_plans(),  *)
(* called with the token of a user                                         *)
(* ---------------------------------------------------------------------- *)
\* the plan ids of the path: those that can be stored and one that cannot
PlanIds == 1..(MaxPlans + 1)

\* faulty variant of GetDietPlanOutcome: the query filters by id only
GetDietPlanOutcome_AnyOwner(stored, identity, plan_id) ==
    LET found == { p \in stored : p.id = plan_id }
    IN IF found = {} THEN [status |-> 404, rows |-> {}]
       ELSE [status |-> 200, rows |-> found]

\* get_diet_plan(): DietPlan.query.filter_by(id=plan_id, user_id=current_user_id)
GetDietPlanOutcome(stored, identity, plan_id) ==
    LET found == { p \in stored : p.id = plan_id /\ p.user_id = identity }
    IN IF found = {} THEN [status |-> 404, rows |-> {}]
       ELSE [status |-> 200, rows |-> found]

\* get_user_diet_plans(): DietPlan.query.filter_by(user_id=current_user_id)
GetUserDietPlansOutcome(stored, identity) ==
    [status |-> 200, rows |-> { p \in stored : p.user_id = identity }]

PlanReadFrame ==
    <<now, nticks, failed_login_attempts, blocked_ips, users, req, ret, hist,
      tenthIp, lateFail, okAt, twin, thr, calls, gate, signed, plans, rest>>

GetDietPlan(user, plan_id) ==
    LET out == GetDietPlanOutcome(plans, user.id, plan_id)
    IN /\ acct' = [NoAnswer EXCEPT !.op = "get_plan", !.user = user.id,
                                   !.plan = plan_id, !.status = out.status,
                                   !.rows = out.rows]
       /\ UNCHANGED PlanReadFrame

GetUserDietPlans(user) ==
    LET out == GetUserDietPlansOutcome(plans, user.id)
    IN /\ acct' = [NoAnswer EXCEPT !.op = "list_plans", !.user = user.id,
                                   !.status = out.status, !.rows = out.rows]
       /\ UNCHANGED PlanReadFrame

NextPlanRead ==
    \/ NextPlan
    \/ \E u \in users, n \in PlanIds : GetDietPlan(u, n)
    \/ \E u \in users : GetUserDietPlans(u)

SpecPlanRead == Init /\ [][NextPlanRead]_vars

(* ---------------------------------------------------------------------- *)
(* SpecCsrf: requests that pass validate_input and check_csrf and then run *)
(* their view: register(), login(), update_profile(), generate_diet_plan() *)
(* ---------------------------------------------------------------------- *)
\* the routes with POST or PUT, GET /api/profile, and requests no route
\* takes: POST /api/health, DELETE /api/profile, POST /profile
CsrfEndpoints ==
    { [method |-> "POST",   path |-> <<"api", "register">>],
      [method |-> "POST",   path |-> <<"api", "login">>],
      [method |-> "PUT",    path |-> <<"api", "profile">>],
      [method |-> "POST",   path |-> <<"api", "diet-plan">>],
      [method |-> "GET",    path |-> <<"api", "profile">>],
      [method |-> "POST",   path |-> <<"api", "health">>],
      [method |-> "DELETE", path |-> <<"api", "profile">>],
      [method |-> "POST",   path |-> <<"profile">>] }

\* the views decorated with jwt_required among them
CsrfProtectedEndpoints ==
    { e \in CsrfEndpoints :
        /\ e.path \in { <<"api", "profile">>, <<"api", "diet-plan">> }
        /\ e.method # "DELETE" }

\* the JSON body: an object the view reads, or one with a suspicious pattern
CsrfBodies == { "plain", "suspicious" }

\* X-CSRF-Token header and csrf_token cookie of a request
CsrfTokenPairs ==
    { <<"absent", "absent">>, <<"", "">>, <<"x", "x">>, <<"x", "y">> }

\* the JSON object a "plain" body stands for in each view
CsrfRegisterBody ==
    [email |-> Str(<<"a","@","b",".","c","o">>), password |-> Str(Secret),
     height |-> Absent, activity_level |-> Absent, diet_preference |-> Str(Keto)]
CsrfLoginBody ==
    [email |-> Str(<<"a","@","b",".","c","o">>), password |-> Str(Secret2)]
CsrfUpdateBody ==
    [email |-> Absent, password |-> Str(Secret2),
     height |-> Absent, activity_level |-> Absent, diet_preference |-> Absent]

\* what the routed view answers and leaves behind; identity is the user of
\* the token, 0 without one
ViewOutcome(endpoint, auth, identity, ip) ==
    LET same == [status |-> 0, view |-> "none", table |-> users,
                 attempts |-> failed_login_attempts, blocked |-> blocked_ips,
                 stored |-> plans]
    IN CASE endpoint = [method |-> "POST", path |-> <<"api", "register">>] ->
              LET out == RegisterOutcome(users, CsrfRegisterBody)
              IN [same EXCEPT !.status = out.status, !.view = "register",
                              !.table = out.table]
         [] endpoint = [method |-> "POST", path |-> <<"api", "login">>] ->
              LET out == LoginResponse(failed_login_attempts, blocked_ips, users,
                                       CsrfLoginBody, ip, now)
              IN [same EXCEPT !.status = out.status, !.view = "login",
                              !.attempts = out.attempts, !.blocked = out.blocked]
         [] endpoint \in CsrfProtectedEndpoints /\ JwtStatus(auth) # 0 ->
              [same EXCEPT !.status = JwtStatus(auth)]
         [] endpoint = [method |-> "PUT", path |-> <<"api", "profile">>] ->
              LET user == CHOOSE u \in users : u.id = identity
                  out == UpdateOutcome(users, user, CsrfUpdateBody)
              IN [same EXCEPT !.status = out.status, !.view = "update",
                              !.table = out.table]
         [] endpoint = [method |-> "POST", path |-> <<"api", "diet-plan">>] ->
              LET user == CHOOSE u \in users : u.id = identity
                  out == DietPlanOutcome(plans, user, "json", Today(now))
              IN [same EXCEPT !.status = out.status, !.view = "plan",
                              !.stored = out.plans]
         [] endpoint = [method |-> "GET", path |-> <<"api", "profile">>] ->
              [same EXCEPT !.status = 200, !.view = "profile"]
         [] IsApiPath(endpoint.path) -> [same EXCEPT !.status = 405]
         [] OTHER -> [same EXCEPT !.status = 404]

CsrfGatedRequest(endpoint, auth, body, csrf_header, csrf_cookie, identity, ip) ==
    LET passed == ViewOutcome(endpoint, auth, identity, ip)
        early == IF InputRejected(body) THEN 400
                 ELSE IF CsrfRejected(endpoint.method, endpoint.path, auth,
                                      csrf_header, csrf_cookie)
                 THEN 403
                 ELSE 0
    IN /\ calls < MaxGated
       /\ IF auth = "valid" /\ endpoint \in CsrfProtectedEndpoints
          THEN identity \in { u.id : u \in users }
          ELSE identity = 0
       /\ Cardinality(plans) < MaxPlans
       /\ calls' = calls + 1
       /\ gate' = [method |-> endpoint.method, path |-> endpoint.path,
                   auth |-> auth, body |-> body, csrf_header |-> csrf_header,
                   csrf_cookie |-> csrf_cookie,
                   status |-> IF early # 0 THEN early ELSE passed.status]
       /\ acct' = IF early # 0 THEN NoAnswer
                  ELSE [NoAnswer EXCEPT !.op = passed.view, !.ip = ip,
                                        !.status = passed.status,
                                        !.user = identity]
       /\ users' = IF early # 0 THEN users ELSE passed.table
       /\ failed_login_attempts' =
              IF early # 0 THEN failed_login_attempts ELSE passed.attempts
       /\ blocked_ips' = IF early # 0 THEN blocked_ips ELSE passed.blocked
       /\ plans' = IF early # 0 THEN plans ELSE passed.stored
       /\ UNCHANGED <<now, nticks, req, ret, hist, tenthIp, lateFail, okAt, twin,
                      thr, signed, rest>>

NextCsrf ==
    \E e \in CsrfEndpoints, a \in AuthHeaders, b \in CsrfBodies,
       t \in CsrfTokenPairs, id \in 0..(MaxUsers + 1), i \in { "ip1" } :
        CsrfGatedRequest(e, a, b, t[1], t[2], id, i)

SpecCsrf == Init /\ [][NextCsrf]_vars

(* ---------------------------------------------------------------------- *)
(* SpecValidate: register() on JSON objects that carry every required      *)
(* field of validation_rules, with values of either JSON type              *)
(* ---------------------------------------------------------------------- *)
NAME_MIN_LENGTH == 2
NAME_MAX_LENGTH == 100
AGE_MIN == 1
AGE_MAX == 120
GENDER_MIN_LENGTH == 4
WEIGHT_MIN == 20
WEIGHT_MAX == 300

AllowedGenders ==
    { <<"m","a","l","e">>, <<"f","e","m","a","l","e">>, <<"o","t","h","e","r">> }

\* the loop over validation_rules on a field that has min_value and
\* max_value and no length rule (age, weight): a string passes the string
\* branch unchecked, a number is compared
ValueRuleViolated(value, required, min_value, max_value) ==
    IF value.t = "absent" THEN required
    ELSE IF IsBlank(value) THEN TRUE
    ELSE IF value.t = "str" THEN FALSE
    ELSE value.v < min_value \/ value.v > max_value

\* the loop over validation_rules on gender: min_length and allowed_values
\* are looked at in the string branch only
GenderViolated(value, required) ==
    IF value.t = "absent" THEN required
    ELSE IF IsBlank(value) THEN TRUE
    ELSE IF value.t = "str"
         THEN \/ Len(Strip(value.v)) < GENDER_MIN_LENGTH
              \/ Lower(Strip(value.v)) \notin AllowedGenders
         ELSE FALSE

\* validate_user_data on an object with all of its fields
ValidateUserData(data, is_update) ==
    IF \/ RuleViolated(data.name, ~is_update, NAME_MIN_LENGTH, NAME_MAX_LENGTH)
       \/ RuleViolated(data.email, ~is_update, EMAIL_MIN_LENGTH, EMAIL_MAX_LENGTH)
       \/ RuleViolated(data.password, ~is_update, PASSWORD_MIN_LENGTH,
                       PASSWORD_MAX_LENGTH)
       \/ ValueRuleViolated(data.age, ~is_update, AGE_MIN, AGE_MAX)
       \/ GenderViolated(data.gender, ~is_update)
       \/ ValueRuleViolated(data.weight, ~is_update, WEIGHT_MIN, WEIGHT_MAX)
    THEN "error"
    ELSE ValidationResult(data, is_update)

\* register() on such an object: the status and the users table it leaves
RegisterDataOutcome(table, data) ==
    LET valid == ValidateUserData(data, FALSE)
    IN IF valid = "raise" THEN [status |-> 500, table |-> table]
       ELSE IF valid = "error" THEN [status |-> 400, table |-> table]
       ELSE RegisterOutcome(table, data)

ValidateNames == { Str(<<"J","o">>), Absent }
ValidateEmails == { Str(<<"a","@","b",".","c","o">>) }
ValidatePasswords == { Str(Secret), Str(<<"s","h","o","r","t">>), Absent }
ValidateAges ==
    { NumOf(0), NumOf(30), NumOf(121), Null,
      Str(<<"3","0">>), Str(<<"1","5","0">>) }
ValidateGenders == { Str(<<"m","a","l","e">>), Str(<<"n","o","n","e">>), NumOf(5) }
ValidateWeights ==
    { NumOf(19), NumOf(70), NumOf(301), Str(<<"1","0">>) }

ValidateBodies ==
    [name : ValidateNames, email : ValidateEmails, password : ValidatePasswords,
     age : ValidateAges, gender : ValidateGenders, weight : ValidateWeights,
     height : { Absent }, activity_level : { Absent },
     diet_preference : { Absent }]

RegisterData(data) ==
    LET out == RegisterDataOutcome(users, data)
        id == Cardinality(users) + 1
    IN /\ Cardinality(users) < MaxUsers
       /\ users' = out.table
       /\ acct' = [NoAnswer EXCEPT !.op = "register", !.email = data.email,
                                   !.password = data.password,
                                   !.status = out.status,
                                   !.user = IF out.status = 201 THEN id ELSE 0,
                                   !.stored = users, !.data = data]
       /\ signed' = IF out.status = 201
                    THEN signed @@ (id :> [email |-> data.email,
                                           password |-> data.password,
                                           old |-> Absent])
                    ELSE signed
       /\ UNCHANGED <<now, nticks, failed_login_attempts, blocked_ips, req, ret,
                      hist, tenthIp, lateFail, okAt, twin, thr, calls, gate, plans,
                      rest>>

NextValidate == \E d \in ValidateBodies : RegisterData(d)

SpecValidate == Init /\ [][NextValidate]_vars

(* ---------------------------------------------------------------------- *)
(* SpecConcurrentLogin: login() run by two server threads at once; the     *)
(* throttle check, the credential verification and the failure record of a *)
(* request are separate steps, each SecurityManager call taking effect at  *)
(* once                                                                    *)
(* ---------------------------------------------------------------------- *)
WorkerBodies ==
    [email : { Str(<<"a","@","b",".","c","o">>), Str(<<"A","@","b",".","c","o">>) },
     password : { Str(P1), Str(P2) }]

WorkerFrame == <<now, nticks, users, req, okAt, twin, thr, calls, gate, account,
                 limiter, monitor>>

\* login(), from get_json to the throttle check
WorkerCheck(t, body, ip) ==
    LET email == NormalizeEmail(body.email.v)
        begun == [IdleWorker EXCEPT !.op = "login", !.body = body, !.ip = ip]
    IN /\ work[t].pc \in { "idle", "done" }
       /\ CheckCall(email, ip)
       /\ work' = [work EXCEPT ![t] =
                       IF ret'.result
                       THEN [begun EXCEPT !.pc = "verify"]
                       ELSE [begun EXCEPT !.pc = "done", !.status = 429]]
       /\ UNCHANGED WorkerFrame

\* login(), user lookup and password check
WorkerVerify(t) ==
    LET outcome == VerifyOutcome(users, NormalizeEmail(work[t].body.email.v),
                                 work[t].body.password)
    IN /\ work[t].pc = "verify"
       /\ work' = [work EXCEPT ![t] =
                       IF outcome = "ok"
                       THEN [work[t] EXCEPT !.pc = "done", !.status = 200]
                       ELSE [work[t] EXCEPT !.pc = "record"]]
       /\ UNCHANGED <<throttle, WorkerFrame>>

\* login(), the two branches that end in 401
WorkerRecord(t) ==
    /\ work[t].pc = "record"
    /\ Len(hist[NormalizeEmail(work[t].body.email.v)]) < MaxWorkerRecords
    /\ RecordCall(NormalizeEmail(work[t].body.email.v), work[t].ip)
    /\ work' = [work EXCEPT ![t] = [work[t] EXCEPT !.pc = "done", !.status = 401]]
    /\ UNCHANGED WorkerFrame

NextConcurrentLogin ==
    \/ LoginTick
    \/ \E e \in RegisterEmails, p \in RegisterPasswords : Register(e, p)
    \/ \E t \in Threads, b \in WorkerBodies, i \in IPs : WorkerCheck(t, b, i)
    \/ \E t \in Threads : WorkerVerify(t)
    \/ \E t \in Threads : WorkerRecord(t)

SpecConcurrentLogin == Init /\ [][NextConcurrentLogin]_vars

(* ---------------------------------------------------------------------- *)
(* SpecAccountRace: register() and update_profile() of two workers, one    *)
(* database statement at a time; users.email carries a unique constraint   *)
(* ---------------------------------------------------------------------- *)
RaceEmails ==
    { Str(<<"a","@","b",".","c","o">>), Str(<<"c","@","b",".","c","o">>) }

RaceRegisterBodies ==
    [email : RaceEmails \cup { Str(<<"a","b">>) }, password : { Str(Secret) },
     height : { Absent }, activity_level : { Absent }, diet_preference : { Absent }]

RaceUpdateBodies ==
    [email : RaceEmails, password : { Absent },
     height : { Absent }, activity_level : { Absent }, diet_preference : { Absent }]

\* rows that registrations in flight may still add
PendingRegistrations ==
    Cardinality({ t \in Threads : work[t].op = "register"
                                    /\ work[t].pc \in { "query", "commit" } })

AccountRaceFrame ==
    <<now, nticks, failed_login_attempts, blocked_ips, req, ret, hist, tenthIp,
      lateFail, okAt, twin, thr, calls, gate, account, limiter, monitor>>

\* the row of the users table with this id
RowOf(table, id) == CHOOSE u \in table : u.id = id

\* register(), from get_json to the validation
BeginRegister(t, body) ==
    LET valid == ValidationResult(body, FALSE)
        status == CASE valid = "raise" -> 500 [] valid = "error" -> 400 [] OTHER -> 0
    IN /\ work[t].pc \in { "idle", "done" }
       /\ Cardinality(users) + PendingRegistrations < MaxUsers
       /\ work' = [work EXCEPT ![t] =
                      [IdleWorker EXCEPT !.op = "register", !.body = body,
                                         !.status = status,
                                         !.pc = IF status = 0 THEN "query" ELSE "done"]]
       /\ UNCHANGED <<users, AccountRaceFrame>>

\* update_profile(), from get_or_404 to the validation and the email test
BeginUpdate(t, user, body) ==
    LET data == PopFalsyPassword(body)
        valid == ValidationResult(data, TRUE)
        status == CASE valid = "raise" -> 500 [] valid = "error" -> 400 [] OTHER -> 0
    IN /\ work[t].pc \in { "idle", "done" }
       /\ work' = [work EXCEPT ![t] =
                      [IdleWorker EXCEPT !.op = "update", !.user = user.id,
                                         !.body = data, !.status = status,
                                         !.pc = IF status # 0 THEN "done"
                                                ELSE IF EmailChanges(user, data)
                                                THEN "query" ELSE "commit"]]
       /\ UNCHANGED <<users, AccountRaceFrame>>

\* existing_user = User.query.filter_by(email=data["email"]).first()
QueryExisting(t) ==
    LET exists == FindUser(users, Strip(work[t].body.email.v)) # {}
    IN /\ work[t].pc = "query"
       /\ work' = [work EXCEPT ![t].pc = IF exists THEN "done" ELSE "commit",
                               ![t].status = IF exists THEN 409 ELSE 0,
                               ![t].taken = exists]
       /\ UNCHANGED <<users, AccountRaceFrame>>

\* set_password, db.session.add and db.session.commit: the insert or update
\* raises when another row holds the email, and the except clause answers 500
CommitOutcome(table, op, id, body) ==
    LET others == IF op = "register" THEN table ELSE table \ { RowOf(table, id) }
    IN IF body.password.t \notin { "absent", "str" }
       THEN [status |-> 500, table |-> table]
       ELSE IF body.email.t = "str" /\ FindUser(others, Strip(body.email.v)) # {}
       THEN [status |-> 500, table |-> table]
       ELSE IF op = "register"
       THEN [status |-> 201, table |-> table \cup { NewUser(table, body) }]
       ELSE [status |-> 200,
             table |-> others \cup { UpdatedUser(RowOf(table, id), body) }]

Commit(t) ==
    LET out == CommitOutcome(users, work[t].op, work[t].user, work[t].body)
        others == IF work[t].op = "register" THEN users
                  ELSE users \ { RowOf(users, work[t].user) }
    IN /\ work[t].pc = "commit"
       /\ users' = out.table
       /\ work' = [work EXCEPT ![t].pc = "done", ![t].status = out.status,
                               ![t].taken =
                                   /\ work[t].body.email.t = "str"
                                   /\ FindUser(others, Strip(work[t].body.email.v)) # {}]
       /\ UNCHANGED AccountRaceFrame

NextAccountRace ==
    \/ \E t \in Threads, b \in RaceRegisterBodies : BeginRegister(t, b)
    \/ \E t \in Threads, u \in users, b \in RaceUpdateBodies : BeginUpdate(t, u, b)
    \/ \E t \in Threads : QueryExisting(t)
    \/ \E t \in Threads : Commit(t)

SpecAccountRace == Init /\ [][NextAccountRace]_vars

(* ---------------------------------------------------------------------- *)
(* SpecBurst: login() behind its limiter decorator, one request at a time  *)
(* ---------------------------------------------------------------------- *)
BurstBodies ==
    [email : { Str(<<"a","@","b",".","c","o">>) }, password : { Str(P1), Str(P2) }]
\* the one client that sends them
BurstIPs == { "ip1" }

\* the error text of an answer, word by word; the limiter answers with the
\* limit that was exceeded
LimiterText == <<"5", "per", "1", "minute">>
ErrorText(code) ==
    CASE code = 400 -> <<"Email", "and", "password", "are", "required">>
      [] code = 401 -> <<"Invalid", "email", "or", "password">>
      [] code = 429 -> <<"Too", "many", "login", "attempts.", "Please", "try",
                         "again", "later.">>
      [] code = 500 -> <<"Internal", "server", "error">>
      [] OTHER -> <<>>

\* the hits of the address in the minute of current_time, this one not counted
HitsInMinute(counters, ip, current_time) ==
    IF counters[ip].minute = current_time \div MINUTE THEN counters[ip].hits ELSE 0

\* the limiter lets the request through to the view
LimiterAdmits(counters, ip, current_time) ==
    HitsInMinute(counters, ip, current_time) < LOGIN_LIMIT

\* a request like the last one, from the same address
RepeatsLastLogin(body, ip) ==
    acct.op = "login" /\ acct.email = body.email /\ acct.password = body.password
                      /\ acct.ip = ip

LimitedLogin(body, ip) ==
    LET hits == HitsInMinute(limiter, ip, now)
        admitted == LimiterAdmits(limiter, ip, now)
        out == LoginResponse(failed_login_attempts, blocked_ips, users, body, ip, now)
    IN /\ hits < MaxBurst
       /\ limiter' = [limiter EXCEPT ![ip] = [minute |-> now \div MINUTE,
                                              hits |-> hits + 1]]
       /\ failed_login_attempts' = IF admitted THEN out.attempts
                                   ELSE failed_login_attempts
       /\ blocked_ips' = IF admitted THEN out.blocked ELSE blocked_ips
       /\ acct' = [NoAnswer EXCEPT
                      !.op = "login", !.email = body.email,
                      !.password = body.password, !.ip = ip,
                      !.nth = IF RepeatsLastLogin(body, ip) THEN acct.nth + 1 ELSE 1,
                      !.hit = hits + 1,
                      !.by = IF admitted THEN "view" ELSE "limiter",
                      !.status = IF admitted THEN out.status ELSE 429,
                      !.text = IF admitted THEN ErrorText(out.status)
                               ELSE LimiterText]
       /\ UNCHANGED <<now, nticks, users, req, ret, hist, tenthIp, lateFail, okAt,
                      twin, thr, calls, gate, signed, plans, work, monitor>>

\* a minute passes between two runs of requests
BurstTick ==
    /\ nticks < MaxMinutes
    /\ now' = now + MINUTE
    /\ nticks' = nticks + 1
    /\ acct' = NoAnswer
    /\ UNCHANGED <<failed_login_attempts, blocked_ips, users, req, ret, hist,
                   tenthIp, lateFail, okAt, twin, thr, calls, gate, signed, plans,
                   rest>>

NextBurst ==
    \/ BurstTick
    \/ \E e \in RegisterEmails, p \in RegisterPasswords : Register(e, p)
    \/ \E b \in BurstBodies, i \in BurstIPs : LimitedLogin(b, i)

SpecBurst == Init /\ [][NextBurst]_vars

(* ---------------------------------------------------------------------- *)
(* What the claims speak about, stated on the history and not on the       *)
(* ledger the code keeps                                                   *)
(* ---------------------------------------------------------------------- *)
\* failures of identifier e recorded less than 900 seconds ago
Recent(e) == Cardinality({k \in 1..Len(hist[e]) : now - hist[e][k] < WINDOW})

\* failures of identifier e recorded at most 900 seconds ago
RecentIncl(e) == Cardinality({k \in 1..Len(hist[e]) : now - hist[e][k] <= WINDOW})

HasUnexpiredBlock(ip) == ip \in DOMAIN blocked_ips /\ now < blocked_ips[ip]

\* the first ten failures of e were recorded within 900 seconds
TenInWindow(e) ==
    /\ Len(hist[e]) >= IP_BLOCK_LIMIT
    /\ hist[e][IP_BLOCK_LIMIT] - hist[e][1] < WINDOW

(* C1: a check of an identifier with fewer than 5 failures recorded in the *)
(* trailing 900 seconds, from an address that has no unexpired block,      *)
(* returns true.                                                           *)
C1_AllowedBelowLimit ==
    (ret.op = "check" /\ Recent(ret.email) < 5 /\ ~HasUnexpiredBlock(ret.ip))
        => ret.result = TRUE

C1_Witness ==
    /\ ret.op = "check"
    /\ Recent(ret.email) = 4
    /\ ret.result = TRUE

C3_BlockedExactly900 ==
    \A e \in Identifiers :
        TenInWindow(e) =>
            (HasUnexpiredBlock(tenthIp[e])
                <=> now < hist[e][IP_BLOCK_LIMIT] + BLOCK_SECONDS)

(* C3 as amended: the address of the 10th failure is blocked from that     *)
(* failure on for at least 900 seconds, and it is no longer blocked once   *)
(* 900 seconds have elapsed since the last 10th-or-later failure recorded  *)
(* with that address; with no such later failure that is exactly 900       *)
(* seconds after the 10th failure.                                         *)
C3_BlockedUntilLastLateFailure ==
    \A e \in Identifiers :
        TenInWindow(e) =>
            /\ now < hist[e][IP_BLOCK_LIMIT] + BLOCK_SECONDS
                  => HasUnexpiredBlock(tenthIp[e])
            /\ now >= lateFail[tenthIp[e]] + BLOCK_SECONDS
                  => ~HasUnexpiredBlock(tenthIp[e])

C3_Witness ==
    \E e \in Identifiers :
        /\ TenInWindow(e)
        /\ lateFail[tenthIp[e]] = hist[e][IP_BLOCK_LIMIT]
        /\ now = hist[e][IP_BLOCK_LIMIT] + BLOCK_SECONDS
        /\ ~HasUnexpiredBlock(tenthIp[e])

C9_BlockOnlyOnTenRecent ==
    (ret.op = "record" /\ ret.result = TRUE) => RecentIncl(ret.email) >= 10

(* ---------------------------------------------------------------------- *)
(* Claims on the login handler                                             *)
(* ---------------------------------------------------------------------- *)
\* the in-window timestamps the ledger stores for identifier e
StoredRecent(e) ==
    IF e \in DOMAIN failed_login_attempts
    THEN SelectAfter(failed_login_attempts[e], now - WINDOW)
    ELSE <<>>

(* C5: a request whose throttle check returned false is answered 429 and   *)
(* does neither the user lookup and password check nor a failure record;   *)
(* a lookup and password check is only ever done by a request whose        *)
(* throttle check returned true.                                           *)
C5_DeniedSkipsVerification ==
    \A r \in Slots :
        /\ req[r].allowed = "no" =>
              /\ req[r].pc = "done"
              /\ req[r].status = 429
              /\ ~req[r].verified
              /\ req[r].recorded = 0
        /\ (req[r].verified \/ req[r].recorded > 0) => req[r].allowed = "yes"

C5_Witness ==
    \E r \in Slots :
        /\ req[r].allowed = "no"
        /\ req[r].status = 429
        /\ FindUser(users, req[r].email) # {}

(* C6: an answered login request that passed the throttle check and had    *)
(* invalid credentials was answered 401 after recording exactly one        *)
(* failure, and only such a request records a failure.                     *)
C6_InvalidCredentialsRecordedOnce ==
    \A r \in Slots :
        req[r].pc = "done" =>
            /\ (req[r].allowed = "yes" /\ req[r].verified /\ ~req[r].valid)
                  => (req[r].status = 401 /\ req[r].recorded = 1)
            /\ req[r].recorded > 0
                  => (req[r].status = 401 /\ req[r].allowed = "yes" /\ ~req[r].valid)

(* C10: no step of a request that is answered 200 changes the in-window    *)
(* failure timestamps of any identifier, and a request for an identifier   *)
(* that has logged in successfully before is still answered 429 when 5 of  *)
(* the identifier's failures lie in the window (4 failures, a success, one *)
(* more failure, then 429).                                                *)
C10_SuccessKeepsHistory ==
    [][\A r \in Slots :
          \* the step that answers 200
          /\ (req[r].pc = "verify" /\ req'[r].status = 200)
                => /\ \A e \in Identifiers : StoredRecent(e)' = StoredRecent(e)
                   /\ hist' = hist
          \* the throttle check of a new request
          /\ (/\ req[r].pc \in {"idle", "done"}
              /\ req'[r] # req[r]
              /\ req'[r].allowed # "none"
              /\ okAt[req'[r].email] >= 0
              /\ Recent(req'[r].email) >= 5)
                => req'[r].status = 429
      ]_vars

C10_Witness ==
    \E r \in Slots :
        /\ req[r].status = 429
        /\ okAt[req[r].email] = 4
        /\ Len(hist[req[r].email]) = 5
        /\ Recent(req[r].email) = 5

(* C7: the login answer does not tell whether the identifier exists: the   *)
(* same requests, served with the target email registered (and never given *)
(* its right password) and with it not registered, get the same status and *)
(* body and leave the same ledger and blocklist, at every attempt.         *)
C7_SameAnswerWhetherRegistered ==
    /\ twin.status = req[1].status
    /\ twin.msg = req[1].msg
    /\ twin.attempts = failed_login_attempts
    /\ twin.blocked = blocked_ips

(* C8: calls of concurrent requests take effect atomically, so no recorded *)
(* failure is lost: every failure recorded inside the window is in the     *)
(* identifier's stored list.                                               *)
C8_NoRecordedFailureLost ==
    \A e \in Identifiers : Len(StoredRecent(e)) >= Recent(e)

(* ---------------------------------------------------------------------- *)
(* Claims on the expiry of a block and on the edge of the window           *)
(* ---------------------------------------------------------------------- *)
\* the list a ledger holds for identifier e
ListOf(attempts, e) == IF e \in DOMAIN attempts THEN attempts[e] ELSE <<>>

\* the stored list of identifier e
StoredAttempts(e) == ListOf(failed_login_attempts, e)

\* the recorded failures of e that are not older than 900 seconds
NotOlderThanWindow(e) == SelectSeq(hist[e], LAMBDA t : now - t <= WINDOW)

(* C12: a check is denied when the address has a stored block entry whose  *)
(* expiry lies strictly after the current time; a stored entry whose       *)
(* expiry is the current time or earlier denies nothing: the check of an   *)
(* identifier that is not limited then returns true.                       *)
C12_BlockHonouredBeforeExpiry ==
    (ret.op = "check" /\ ret.ip \in DOMAIN blocked_ips) =>
        /\ now < blocked_ips[ret.ip] => ret.result = FALSE
        /\ (now >= blocked_ips[ret.ip] /\ Recent(ret.email) < 5)
              => ret.result = TRUE

C12_Witness ==
    /\ ret.op = "check"
    /\ ret.ip \in DOMAIN blocked_ips
    /\ now = blocked_ips[ret.ip]
    /\ ret.result = TRUE

(* C13: a check leaves in the identifier's list exactly the recorded       *)
(* failures that are not older than 900 seconds, a failure of age exactly  *)
(* 900 included, and denies when 5 or more of them are left.               *)
C13_KeepsAgeExactly900 ==
    ret.op = "check" =>
        /\ StoredAttempts(ret.email) = NotOlderThanWindow(ret.email)
        /\ Len(NotOlderThanWindow(ret.email)) >= 5 => ret.result = FALSE

(* ---------------------------------------------------------------------- *)
(* Claim on repeated checks                                                *)
(* ---------------------------------------------------------------------- *)
\* the time from which a check of e is no longer denied by the stored list:
\* when the fifth newest in-window entry leaves the window
AllowedAgain(e) ==
    LET kept == StoredRecent(e)
    IN IF Len(kept) >= EMAIL_LIMIT
       THEN kept[Len(kept) - EMAIL_LIMIT + 1] + WINDOW
       ELSE now

(* C11: a check changes no identifier's in-window timestamps and no        *)
(* identifier's time of being allowed again, and leaves in the checked     *)
(* identifier's list what one check of the never-pruned list would leave;  *)
(* a check that repeats the last call at the same time returns the same    *)
(* result and leaves the ledger as it found it.                            *)
C11_PruningIdempotent ==
    [][ret'.op = "check" =>
          /\ \A e \in Identifiers :
                /\ StoredRecent(e)' = StoredRecent(e)
                /\ AllowedAgain(e)' = AllowedAgain(e)
          /\ ListOf(failed_login_attempts', ret'.email)
                = SelectAfter(hist[ret'.email], now - WINDOW)
          /\ RepeatsLastCall(ret'.email, ret'.ip) =>
                /\ ret'.result = ret.result
                /\ failed_login_attempts' = failed_login_attempts
      ]_vars

C11_Witness ==
    /\ ret.op = "check"
    /\ calls = MaxRepeats
    /\ ret.result = FALSE
    /\ ~HasUnexpiredBlock(ret.ip)
    /\ Len(StoredAttempts(ret.email)) < Len(hist[ret.email])

(* ---------------------------------------------------------------------- *)
(* Claim on the protected endpoints                                        *)
(* ---------------------------------------------------------------------- *)
(* C14: a request to a protected endpoint that carries no authentication   *)
(* token, and whose body the input validation lets pass, is answered 401,  *)
(* whatever its method.                                                    *)
C14_NoTokenAnswered401 ==
    (/\ [method |-> gate.method, path |-> gate.path] \in ProtectedEndpoints
     /\ gate.auth = "absent"
     /\ ~InputRejected(gate.body))
        => gate.status = 401

(* ---------------------------------------------------------------------- *)
(* Claims on registration followed by login                                *)
(* ---------------------------------------------------------------------- *)
\* the login submits the email and the password of a registration that was
\* answered 201
ResubmitsRegistration ==
    \E id \in DOMAIN signed :
        /\ signed[id].email = acct.email
        /\ signed[id].password = acct.password

(* C15: a login that submits the same email and the same password as a     *)
(* registration that was answered 201, and that the throttle lets pass, is *)
(* answered 200.                                                           *)
C15_RegisteredCanLogin ==
    (acct.op = "login" /\ ResubmitsRegistration /\ acct.allowed)
        => acct.status = 200

(* ---------------------------------------------------------------------- *)
(* Claim on duplicate emails                                               *)
(* ---------------------------------------------------------------------- *)
(* C16: a valid register request, or profile update that changes the       *)
(* email, whose email belongs to another user when it is answered is       *)
(* answered 409, for every interleaving of the workers, and no two users   *)
(* ever hold the same email.                                               *)
C16_DuplicateEmailAnswered409 ==
    /\ \A t \in Threads :
          (work[t].pc = "done" /\ work[t].taken) => work[t].status = 409
    /\ \A u, v \in users : u.email = v.email => u = v

(* ---------------------------------------------------------------------- *)
(* Claim on the limiter of the login endpoint                              *)
(* ---------------------------------------------------------------------- *)
\* the words of sub appear in s, one after the other
ContainsWords(s, sub) ==
    \E k \in 0..(Len(s) - Len(sub)) : SubSeq(s, k + 1, k + Len(sub)) = sub

\* the login names a registered email with a password that is not its own
WrongPasswordForRegistered ==
    /\ acct.email.t = "str"
    /\ FindUser(users, NormalizeEmail(acct.email.v)) # {}
    /\ VerifyOutcome(users, NormalizeEmail(acct.email.v), acct.password) = "wrong"

(* C17: the limiter of the login endpoint admits 10 requests of an address *)
(* per minute, and the 11th of 11 equal requests with a wrong password for *)
(* a registered email, sent within one minute from one address, is         *)
(* answered 429 with an error text that contains 'Rate limit exceeded'.    *)
C17_EleventhLoginRateLimited ==
    acct.op = "login" =>
        /\ acct.hit <= 10 => acct.by # "limiter"
        /\ (acct.nth = 11 /\ WrongPasswordForRegistered) =>
              /\ acct.status = 429
              /\ ContainsWords(acct.text, <<"Rate", "limit", "exceeded">>)

(* ---------------------------------------------------------------------- *)
(* Claim on a changed password                                             *)
(* ---------------------------------------------------------------------- *)
(* C18: once a profile update has set a password that differs from the old *)
(* one, a login with the user's email for an identifier with fewer than 4  *)
(* in-window failures is answered 401 when it submits the old password and *)
(* 200 when it submits the new one.                                        *)
C18_NewPasswordReplacesOld ==
    \A id \in DOMAIN signed :
        (/\ acct.op = "login"
         /\ acct.before < 4
         /\ acct.allowed
         /\ acct.email = signed[id].email
         /\ signed[id].old # Absent
         /\ signed[id].old # signed[id].password)
            => /\ acct.password = signed[id].old => acct.status = 401
               /\ acct.password = signed[id].password => acct.status = 200

(* ---------------------------------------------------------------------- *)
(* Claims on diet plans                                                    *)
(* ---------------------------------------------------------------------- *)
\* the Gemini call of the last diet-plan request failed
GeminiFailed == acct.op = "plan" /\ acct.gemini = "raises"

(* C19: when the Gemini call fails, POST /api/diet-plan answers 500 with   *)
(* an 'error' field and the stored plans are those stored before.          *)
C19_GeminiFailureStoresNothing ==
    GeminiFailed =>
        /\ acct.status = 500
        /\ "error" \in acct.keys
        /\ plans = acct.stored

\* a Gemini failure answered for a user who already has a plan
C19_Witness ==
    /\ GeminiFailed
    /\ acct.status = 500
    /\ \E p \in plans : p.user_id = acct.user

(* C20: for every registered user, a diet-plan request whose Gemini call   *)
(* returns a plan is answered 201 and stores exactly one new plan, owned   *)
(* by that user, with end_date = start_date + 6 days.                      *)
C20_PlanStoredForEveryUser ==
    (acct.op = "plan" /\ acct.gemini = "json") =>
        /\ acct.status = 201
        /\ \E p \in plans :
              /\ p \notin acct.stored
              /\ plans = acct.stored \cup { p }
              /\ p.user_id = acct.user
              /\ p.end_date = p.start_date + 6

(* ---------------------------------------------------------------------- *)
(* Claim on the validation of a registration                               *)
(* ---------------------------------------------------------------------- *)
DigitString == <<"0", "1", "2", "3", "4", "5", "6", "7", "8", "9">>
DigitValue(c) == (CHOOSE k \in 1..10 : DigitString[k] = c) - 1

RECURSIVE ParseInt(_)
ParseInt(s) ==
    IF s = <<>> THEN 0
    ELSE 10 * ParseInt(SubSeq(s, 1, Len(s) - 1)) + DigitValue(s[Len(s)])

\* the value is a JSON number or a string of digits
IsNumeric(value) ==
    \/ value.t = "num"
    \/ value.t = "str" /\ value.v # <<>> /\ \A k \in 1..Len(value.v) : value.v[k] \in Digits

NumberOf(value) == IF value.t = "num" THEN value.v ELSE ParseInt(value.v)

MissingOrEmpty(value) == value.t = "absent" \/ IsBlank(value)

OutOfRange(value, low, high) ==
    IsNumeric(value) /\ (NumberOf(value) < low \/ NumberOf(value) > high)

\* a violation the registration rules name is present in the object
RegistrationViolation(data) ==
    \/ \E f \in { "name", "email", "password", "age", "gender", "weight" } :
          MissingOrEmpty(data[f])
    \/ OutOfRange(data.age, 1, 120)
    \/ OutOfRange(data.weight, 20, 300)
    \/ ~MissingOrEmpty(data.gender)
          /\ ~(data.gender.t = "str" /\ Lower(Strip(data.gender.v)) \in AllowedGenders)
    \/ data.password.t = "str" /\ Len(data.password.v) < 6

(* C21: a registration whose object has a required field missing or empty, *)
(* an age outside 1..120, a weight outside 20..300, a gender other than    *)
(* male/female/other or a password shorter than 6 characters, whatever the *)
(* JSON type of the value, is answered 400 and creates no user.            *)
C21_ViolationsAnswered400 ==
    (acct.op = "register" /\ RegistrationViolation(acct.data)) =>
        /\ acct.status = 400
        /\ users = acct.stored

(* ---------------------------------------------------------------------- *)
(* Claims on the keys of the ledger                                        *)
(* ---------------------------------------------------------------------- *)
\* short is what is left of long after entries were dropped from its front
IsSuffix(short, long) ==
    /\ Len(short) <= Len(long)
    /\ short = SubSeq(long, Len(long) - Len(short) + 1, Len(long))

(* C22: no step removes a key from failed_login_attempts; a check leaves   *)
(* of every identifier's list a suffix of it, possibly the empty list.     *)
C22_KeysNeverRemoved ==
    [][/\ DOMAIN failed_login_attempts \subseteq DOMAIN failed_login_attempts'
       /\ ret'.op = "check" =>
             \A e \in DOMAIN failed_login_attempts :
                 IsSuffix(ListOf(failed_login_attempts', e), failed_login_attempts[e])
      ]_vars

\* a check has pruned an identifier's list to the empty list and the key stays
C22_Witness ==
    /\ ret.op = "check"
    /\ ret.email \in DOMAIN failed_login_attempts
    /\ failed_login_attempts[ret.email] = <<>>
    /\ hist[ret.email] # <<>>

\* no upper-case letter and no blank at either end
IsNormalized(k) ==
    /\ \A i \in 1..Len(k) : k[i] \notin UpperLetters
    /\ k # <<>> => (k[1] # " " /\ k[Len(k)] # " ")

(* C23: every step leaves only lower-cased, trimmed keys in the ledger,    *)
(* and a login answered 401 appends its failure to the in-window list kept *)
(* for the lower-cased, trimmed form of the email it submitted.            *)
C23_LedgerKeysNormalized ==
    [][/\ \A k \in DOMAIN failed_login_attempts' : IsNormalized(k)
       /\ (now' = now /\ acct'.op = "login" /\ acct'.status = 401) =>
             ListOf(failed_login_attempts', Strip(Lower(acct'.email.v)))
                = Append(SelectAfter(ListOf(failed_login_attempts,
                                            Strip(Lower(acct'.email.v))),
                                     now - WINDOW), now)
      ]_vars

\* failures submitted under different spellings share one entry
C23_Witness ==
    /\ acct.op = "login"
    /\ acct.status = 401
    /\ acct.email = Str(<<" ","a","@","b",".","c","o">>)
    /\ DOMAIN failed_login_attempts = { <<"a","@","b",".","c","o">> }
    /\ Len(failed_login_attempts[<<"a","@","b",".","c","o">>]) >= 3

(* ---------------------------------------------------------------------- *)
(* Claim on blocking through the login handler                             *)
(* ---------------------------------------------------------------------- *)
\* the list login() hands to record_failed_login was pruned by the check of
\* the same request and was shorter than 5 then: no address is ever blocked
NoAddressBlocked ==
    /\ DOMAIN blocked_ips = {}
    /\ \A k \in DOMAIN failed_login_attempts :
          Len(failed_login_attempts[k]) <= EMAIL_LIMIT

(* C24: with login requests processed one at a time, some sequence of      *)
(* login requests brings the client address to BLOCKED: the address gets   *)
(* an entry in blocked_ips.                                                *)
C24_BlockedReachableByLogins == <>(DOMAIN blocked_ips # {})

(* ---------------------------------------------------------------------- *)
(* Claim on concurrent login requests                                      *)
(* ---------------------------------------------------------------------- *)
(* C25: however concurrent login requests interleave, at most 5 failures   *)
(* recorded for one identifier lie within the trailing 900 seconds.        *)
C25_AtMostFiveFailuresInWindow ==
    \A e \in Identifiers : Recent(e) <= 5

(* ---------------------------------------------------------------------- *)
(* Claim on the end of a lockout                                           *)
(* ---------------------------------------------------------------------- *)
\* the time of the failure recorded last for identifier e
LastFailure(e) == hist[e][Len(hist[e])]

SameBut(before, after, k) ==
    /\ DOMAIN before \ { k } = DOMAIN after \ { k }
    /\ \A x \in DOMAIN before \ { k } : after[x] = before[x]

(* C27: a check leaves the blocklist, the key set of the ledger and the    *)
(* list of every identifier but the queried one as they were; a record     *)
(* appends one timestamp to the given identifier's list, leaves every      *)
(* other list as it was and changes no block entry but, at most, that of   *)
(* the given address.                                                      *)
C27_ThrottleFrame ==
    [][/\ ret'.op = "check" =>
             /\ blocked_ips' = blocked_ips
             /\ DOMAIN failed_login_attempts' = DOMAIN failed_login_attempts
             /\ SameBut(failed_login_attempts, failed_login_attempts', ret'.email)
       /\ ret'.op = "record" =>
             /\ SameBut(failed_login_attempts, failed_login_attempts', ret'.email)
             /\ ListOf(failed_login_attempts', ret'.email)
                   = Append(ListOf(failed_login_attempts, ret'.email), now)
             /\ SameBut(blocked_ips, blocked_ips', ret'.ip)
             /\ DOMAIN blocked_ips \subseteq DOMAIN blocked_ips'
      ]_vars

\* a record has blocked its address and left the other address's entry alone
C27_Witness ==
    /\ ret.op = "record"
    /\ ret.result = TRUE
    /\ DOMAIN blocked_ips = IPs
    /\ \A i \in IPs \ { ret.ip } : blocked_ips[i] < blocked_ips[ret.ip]

(* ---------------------------------------------------------------------- *)
(* Claim on who reads a diet plan                                          *)
(* ---------------------------------------------------------------------- *)
\* the stored plans with this id that this user owns
OwnedWithId(user_id, plan_id) ==
    { p \in plans : p.id = plan_id /\ p.user_id = user_id }

(* C28: GET /api/diet-plan/<id> answers 200 with the plan when the caller  *)
(* owns a plan of that id and 404 with no plan otherwise; GET              *)
(* /api/diet-plans answers with exactly the caller's plans.                *)
C28_PlansIsolatedPerUser ==
    /\ acct.op = "get_plan" =>
          IF OwnedWithId(acct.user, acct.plan) # {}
          THEN acct.status = 200 /\ acct.rows = OwnedWithId(acct.user, acct.plan)
          ELSE acct.status = 404 /\ acct.rows = {}
    /\ acct.op = "list_plans" =>
          /\ acct.status = 200
          /\ acct.rows = { p \in plans : p.user_id = acct.user }
          /\ \A p \in acct.rows : p.user_id = acct.user

\* a user asks for a stored plan of another user and gets 404
C28_Witness ==
    /\ acct.op = "get_plan"
    /\ acct.status = 404
    /\ \E p \in plans : p.id = acct.plan /\ p.user_id # acct.user
    /\ \E p \in plans : p.user_id = acct.user

(* ---------------------------------------------------------------------- *)
(* Claim on the counters of the monitor                                    *)
(* ---------------------------------------------------------------------- *)
(* C29: error_count never exceeds request_count, and the error rate never  *)
(* exceeds 100 percent, also after requests that the input-validation or   *)
(* CSRF hook has answered.                                                 *)
C29_ErrorsWithinRequests ==
    /\ monitor.error_count <= monitor.request_count
    /\ ErrorRate(monitor) <= 100

(* ---------------------------------------------------------------------- *)
(* Claims on the CSRF gate                                                 *)
(* ---------------------------------------------------------------------- *)
\* the request carries what check_csrf asks of a POST, PUT or DELETE
CsrfCredentialed(r) ==
    \/ r.path \in { <<"api", "register">>, <<"api", "login">>, <<"api", "health">> }
    \/ (Len(r.path) >= 2 /\ r.path[1] = "api" /\ r.auth # "absent")
    \/ (r.csrf_header \notin { "absent", "" } /\ r.csrf_header = r.csrf_cookie)

\* the request of the step changes the method of a resource
StateChanging(r) == r.method \in { "POST", "PUT", "DELETE" }

\* the step leaves the database and the throttle maps as they were
NothingChanged ==
    /\ users' = users
    /\ plans' = plans
    /\ failed_login_attempts' = failed_login_attempts
    /\ blocked_ips' = blocked_ips

====
